---- MODULE Spec2Model ----
(***************************************************************************)
(* Model of the nofx-us-stock trading core: the AutoTrader cycle loop      *)
(* (trader/auto_trader.py), the decision validation of decision/engine.py, *)
(* the dummy broker (trader/dummy_broker_api.py behind StockTrader), the   *)
(* append-only decision log (logger/decision_logger.py) and the legacy     *)
(* manager-driven loop (manager/trader_manager.py).                        *)
(***************************************************************************)
EXTENDS Integers, Sequences, FiniteSets, TLC

\* ------------------------------------------------------------------ bounds
MaxCycles == 2
MaxDecisions == 2
MaxCooldown == 4
MaxSortLen == 4
MaxMgrCycles == 2
MaxFairDecisions == 1

\* ------------------------------------------------------- program constants
ScanIntervalMinutes == 3
InitialBalance == 10000
BtcEthLeverage == 10
AltcoinLeverage == 5
DefaultPrice == 100
DayMinutes == 1440

\* --------------------------------------------------------------- datatypes
\* An optional value: None is the absent value (a missing dict key, a JSON
\* null, Python's None), Some(x) a present one.
None == << >>
Some(x) == << x >>
IsSome(o) == o /= << >>
Val(o) == o[1]

Symbols == {"AAPL", "TSLA"}
Sides == {"long", "short"}
PosKeys == Symbols \X Sides
LargeCaps == {"AAPL", "MSFT", "GOOGL", "AMZN", "META", "NVDA"}
ValidActions == {"open_long", "open_short", "close_long", "close_short", "hold", "wait"}
Prices == {DefaultPrice, 150}

\* Decision(...) of decision/engine.py; the numeric fields are optional
\* because extract_decisions copies whatever JSON value the key holds.
Decision(sym, act, lev, size, sl, tp, tag) ==
    [symbol |-> sym, action |-> act, leverage |-> lev, position_size_usd |-> size,
     stop_loss |-> sl, take_profit |-> tp, reasoning |-> tag]

\* A decision as extract_decisions builds it from an object that only has
\* "symbol" and "action": every other field takes its default.
DefaultDecision(sym, act, tag) ==
    Decision(sym, act, Some(0), Some(0), Some(0), Some(0), tag)

TruncDiv(a, b) == IF a >= 0 THEN a \div b ELSE -((-a) \div b)
Max(a, b) == IF a >= b THEN a ELSE b

\* ------------------------------------------------------ decision/engine.py
\* A risk/reward check that asks for a ratio of 5.
RatioBelowFive(d) ==
    LET sl == Val(d.stop_loss)
        tp == Val(d.take_profit)
        entry5 == IF d.action = "open_long" THEN 5 * sl + (tp - sl) ELSE 5 * sl - (sl - tp)
        risk5 == IF d.action = "open_long" THEN entry5 - 5 * sl ELSE 5 * sl - entry5
        reward5 == IF d.action = "open_long" THEN 5 * tp - entry5 ELSE entry5 - 5 * tp
    IN  risk5 > 0 /\ reward5 < 5 * risk5

\* The risk/reward check of validate_decision.
RiskRewardTooLow(d) ==
    LET sl == Val(d.stop_loss)
        tp == Val(d.take_profit)
        \* entry price times 5 (entry = sl + (tp - sl) * 0.2)
        entry5 == IF d.action = "open_long" THEN 5 * sl + (tp - sl) ELSE 5 * sl - (sl - tp)
        risk5 == IF d.action = "open_long" THEN entry5 - 5 * sl ELSE 5 * sl - entry5
        reward5 == IF d.action = "open_long" THEN 5 * tp - entry5 ELSE entry5 - 5 * tp
    IN  \* risk_percent > 0 and reward_percent / risk_percent < 3.0
        /\ risk5 > 0
        /\ reward5 < 3 * risk5

\* The leverage cap of the other symbols for every symbol.
AltcoinCapOnly(symbol, btc_eth_leverage, altcoin_leverage) == altcoin_leverage

\* max_leverage
MaxLeverage(symbol, btc_eth_leverage, altcoin_leverage) ==
    IF symbol \in LargeCaps THEN btc_eth_leverage ELSE altcoin_leverage

\* A ceiling of 15 times the equity for the large caps.
FifteenTimesEquity10(symbol, account_equity) ==
    IF symbol \in LargeCaps THEN account_equity * 150 ELSE account_equity * 15

\* max_position_value times 10 (equity * 1.5, or equity * 10)
MaxPositionValue10(symbol, account_equity) ==
    IF symbol \in LargeCaps THEN account_equity * 100 ELSE account_equity * 15

\* position_size_usd > max_position_value + max_position_value * 0.01
SizeAboveCeiling(size, max_value10) == size * 1000 > max_value10 * 101

\* An ordering test that lets equal prices through.
StopsReversed(d) ==
    \/ d.action = "open_long" /\ Val(d.stop_loss) > Val(d.take_profit)
    \/ d.action /= "open_long" /\ Val(d.stop_loss) < Val(d.take_profit)

\* The two ordering tests of stop_loss and take_profit.
StopsMisordered(d) ==
    \/ d.action = "open_long" /\ Val(d.stop_loss) >= Val(d.take_profit)
    \/ d.action /= "open_long" /\ Val(d.stop_loss) <= Val(d.take_profit)

\* validate_decision: "ok", or the exception class it raises.  Comparing a
\* non-number with a number raises TypeError at the first such comparison.
validate_decision(d, account_equity, btc_eth_leverage, altcoin_leverage) ==
    IF d.action \notin ValidActions THEN "ValueError"
    ELSE IF d.action \notin {"open_long", "open_short"} THEN "ok"
    ELSE LET max_leverage == MaxLeverage(d.symbol, btc_eth_leverage, altcoin_leverage)
             max_value10 == MaxPositionValue10(d.symbol, account_equity)
         IN  IF ~IsSome(d.leverage) THEN "TypeError"
             ELSE IF Val(d.leverage) <= 0 \/ Val(d.leverage) > max_leverage THEN "ValueError"
             ELSE IF ~IsSome(d.position_size_usd) THEN "TypeError"
             ELSE IF Val(d.position_size_usd) <= 0 THEN "ValueError"
             ELSE IF SizeAboveCeiling(Val(d.position_size_usd), max_value10) THEN "ValueError"
             ELSE IF ~IsSome(d.stop_loss) THEN "TypeError"
             ELSE IF Val(d.stop_loss) <= 0 THEN "ValueError"
             ELSE IF ~IsSome(d.take_profit) THEN "TypeError"
             ELSE IF Val(d.take_profit) <= 0 THEN "ValueError"
             ELSE IF StopsMisordered(d) THEN "ValueError"
             ELSE IF RiskRewardTooLow(d) THEN "ValueError"
             ELSE "ok"

\* The validation loop of parse_full_decision_response: a ValueError is
\* swallowed (pass), any other exception leaves the function.
ValidationRaises(ds) ==
    \E i \in 1..Len(ds) :
        validate_decision(ds[i], InitialBalance, BtcEthLeverage, AltcoinLeverage) = "TypeError"

\* ------------------------------------------------- trader/auto_trader.py
IsClose(d) == d.action \in {"close_long", "close_short"}
IsOpen(d) == d.action \in {"open_long", "open_short"}
IsHold(d) == d.action \in {"hold", "wait"}

\* A scheduler that runs the opens before the closes.
SortOpenFirst(decisions) ==
    SelectSeq(decisions, IsOpen) \o SelectSeq(decisions, IsClose) \o SelectSeq(decisions, IsHold)

\* A scheduler that keeps the order of the response.
KeptInResponseOrder(decisions) == decisions

_sort_decisions_by_priority(decisions) ==
    SelectSeq(decisions, IsClose) \o SelectSeq(decisions, IsOpen) \o SelectSeq(decisions, IsHold)

\* The logging loop of _run_cycle (step 6) formats position_size_usd,
\* stop_loss and take_profit of every open decision with a float format,
\* which raises for a value that is no number.
PrintRaises(ds) ==
    \E i \in 1..Len(ds) :
        /\ IsOpen(ds[i])
        /\ \/ ~IsSome(ds[i].position_size_usd)
           \/ ~IsSome(ds[i].stop_loss)
           \/ ~IsSome(ds[i].take_profit)

\* --------------------------------------------- trader/dummy_broker_api.py
\* DummyBrokerAPI._positions maps "<symbol>_<side>" to a position dict; a key
\* is deleted when its quantity reaches 0, so quantity 0 stands for "no key".
EmptyPositions == [k \in PosKeys |-> 0]

\* DummyBrokerAPI.get_positions: the positions with quantity > 0.
get_positions(positions) == {k \in PosKeys : positions[k] > 0}

NextOrderId(orders) == Len(orders) + 1

\* DummyBrokerAPI.place_order, its effect on _orders ...
place_order_orders(orders, symbol, side, quantity) ==
    Append(orders, [order_id |-> NextOrderId(orders), symbol |-> symbol, side |-> side,
                    quantity |-> quantity, status |-> "filled"])

\* ... and on _positions.
place_order_positions(positions, symbol, side, quantity) ==
    IF side \in {"sell", "cover"}
    THEN LET k == << symbol, IF side = "sell" THEN "long" ELSE "short" >>
         IN  [positions EXCEPT ![k] = Max(0, @ - quantity)]
    ELSE LET k == << symbol, IF side \in {"buy", "long"} THEN "long" ELSE "short" >>
         IN  [positions EXCEPT ![k] = @ + quantity]

\* ------------------------------------------------- trader/stock_trader.py
\* The result of a StockTrader call: the broker after it and the order dict
\* it returns (ok = FALSE: an {"error": ...} dict, no order was placed).
TraderResult(ok, positions, orders) == [ok |-> ok, positions |-> positions, orders |-> orders]

OpenOrder(positions, orders, symbol, side, shares) ==
    IF shares <= 0 THEN TraderResult(FALSE, positions, orders)
    ELSE TraderResult(TRUE, place_order_positions(positions, symbol, side, shares),
                      place_order_orders(orders, symbol, side, shares))

buy_stock(positions, orders, symbol, shares) == OpenOrder(positions, orders, symbol, "buy", shares)
short_stock(positions, orders, symbol, shares) == OpenOrder(positions, orders, symbol, "short", shares)

\* A close that sells one share of the position.
CloseOneShare(positions, orders, symbol, side, order_side) ==
    IF positions[<< symbol, side >>] = 0 THEN TraderResult(FALSE, positions, orders)
    ELSE TraderResult(TRUE, place_order_positions(positions, symbol, order_side, 1),
                      place_order_orders(orders, symbol, order_side, 1))

\* sell_stock / cover_short with shares = 0: close the whole position.
CloseAll(positions, orders, symbol, side, order_side) ==
    LET shares == positions[<< symbol, side >>]
    IN  IF shares = 0 THEN TraderResult(FALSE, positions, orders)
        ELSE TraderResult(TRUE, place_order_positions(positions, symbol, order_side, shares),
                          place_order_orders(orders, symbol, order_side, shares))

sell_stock(positions, orders, symbol) == CloseAll(positions, orders, symbol, "long", "sell")
cover_short(positions, orders, symbol) == CloseAll(positions, orders, symbol, "short", "cover")

\* order.get("order_id", order.get("orderId", 0))
OrderIdOf(res, orders) == IF res.ok THEN NextOrderId(orders) ELSE 0

\* ------------------------------------------- AutoTrader._execute_decision
\* The outcome of executing one decision: the action_record as the loop of
\* _run_cycle leaves it, and the broker and first-seen map after it.
ActionRecord(d, t) ==
    [action |-> d.action, symbol |-> d.symbol, quantity |-> 0, leverage |-> d.leverage,
     price |-> 0, timestamp |-> t, success |-> FALSE, error |-> "", order_id |-> None]

ExecOutcome(rec, positions, orders, first_seen) ==
    [record |-> rec, positions |-> positions, orders |-> orders, first_seen |-> first_seen]

Raised(d, t, msg, positions, orders, first_seen) ==
    ExecOutcome([ActionRecord(d, t) EXCEPT !.error = msg], positions, orders, first_seen)

\* A quantity rounded up to the next whole share.
RoundedUpQuantity(position_size_usd, current_price) ==
    (position_size_usd + current_price - 1) \div current_price

\* quantity = int(position_size_usd / current_price) if current_price > 0 else 1
OrderQuantity(position_size_usd, current_price) ==
    IF current_price > 0 THEN TruncDiv(position_size_usd, current_price) ELSE 1

\* The part of _execute_open_long / _execute_open_short after the position
\* check: size the order, send it, record the opening time.
OpenAndRecord(d, side, price, t, positions, orders, first_seen) ==
    LET quantity == OrderQuantity(Val(d.position_size_usd), price)
        res == IF side = "long" THEN buy_stock(positions, orders, d.symbol, quantity)
               ELSE short_stock(positions, orders, d.symbol, quantity)
    IN  ExecOutcome([ActionRecord(d, t) EXCEPT !.quantity = quantity, !.price = price,
                                               !.order_id = Some(OrderIdOf(res, orders)),
                                               !.success = TRUE],
                    res.positions, res.orders,
                    [first_seen EXCEPT ![<< d.symbol, side >>] = Some(t)])

\* An open that does not look at the broker's positions first.
ExecuteOpenNoCheck(d, side, price, t, positions, orders, first_seen) ==
    OpenAndRecord(d, side, price, t, positions, orders, first_seen)

\* _execute_open_long / _execute_open_short
ExecuteOpen(d, side, price, t, positions, orders, first_seen) ==
    IF << d.symbol, side >> \in get_positions(positions)
    THEN Raised(d, t, "position_already_open", positions, orders, first_seen)
    ELSE IF ~IsSome(d.position_size_usd)
    THEN Raised(d, t, "type_error", positions, orders, first_seen)
    ELSE OpenAndRecord(d, side, price, t, positions, orders, first_seen)

\* _execute_close_long / _execute_close_short
ExecuteClose(d, side, price, t, positions, orders, first_seen) ==
    LET res == IF side = "long" THEN sell_stock(positions, orders, d.symbol)
               ELSE cover_short(positions, orders, d.symbol)
    IN  ExecOutcome([ActionRecord(d, t) EXCEPT !.price = price,
                                               !.order_id = Some(OrderIdOf(res, orders)),
                                               !.success = TRUE],
                    res.positions, res.orders, first_seen)

_execute_decision(d, price, t, positions, orders, first_seen) ==
    CASE d.action = "open_long" -> ExecuteOpen(d, "long", price, t, positions, orders, first_seen)
      [] d.action = "open_short" -> ExecuteOpen(d, "short", price, t, positions, orders, first_seen)
      [] d.action = "close_long" -> ExecuteClose(d, "long", price, t, positions, orders, first_seen)
      [] d.action = "close_short" -> ExecuteClose(d, "short", price, t, positions, orders, first_seen)
      [] d.action \in {"hold", "wait"} ->
            ExecOutcome([ActionRecord(d, t) EXCEPT !.success = TRUE], positions, orders, first_seen)
      [] OTHER -> Raised(d, t, "unknown_action", positions, orders, first_seen)

\* ------------------------------------------------------------------ state
VARIABLES
    pc,                         \* where AutoTrader.run is
    is_running,                 \* AutoTrader.is_running
    call_count,                 \* AutoTrader.call_count
    stop_until,                 \* AutoTrader.stop_until (None or Some(minute))
    last_reset_time,            \* AutoTrader.last_reset_time
    position_first_seen_time,   \* AutoTrader.position_first_seen_time
    decisions,                  \* FullDecision.decisions of the running cycle
    sorted_decisions,           \* the scheduled decisions of the running cycle
    exec_idx,                   \* how many of them the execution loop has done
    record,                     \* the record the running cycle is building
    raised,                     \* the running cycle left _run_cycle by an exception
    balance, positions, orders, \* DummyBrokerAPI._balance, _positions, _orders
    log,                        \* the lines of decision_logs/<id>/<id>.log
    now,                        \* the wall clock, in minutes
    ai_calls,                   \* number of calls of AIClient.complete so far
    ai_response                 \* _run_cycle's ai_response (None outside the cycle)

tvars == << pc, is_running, call_count, stop_until, last_reset_time,
            position_first_seen_time, decisions, sorted_decisions, exec_idx, record, raised,
            balance, positions, orders, log, now, ai_calls, ai_response >>

\* The state of the TraderManager and of its _run_trader_loop tasks.
VARIABLES
    m_is_running,   \* TraderManager._is_running
    m_call_count,   \* TraderManager._call_count
    m_tasks,        \* the keys of TraderManager._tasks
    m_pc,           \* per trader: where its _run_trader_loop task is
    m_idx,          \* per trader: the index in stocks of the symbol in work (0: none)
    m_cycles,       \* per trader: passes of the while loop started so far
    m_cancel,       \* per trader: task.cancel() was called on its task
    m_log,          \* per trader: the lines of decision_logs/<id>.log
    m_positions,    \* per trader: _positions of the broker of _brokers[id]
    m_orders        \* per trader: _orders of that broker

mvars == << m_is_running, m_call_count, m_tasks, m_pc, m_idx, m_cycles, m_cancel, m_log,
            m_positions, m_orders >>

\* A single call of one of the pure functions of decision/engine.py and
\* logger/decision_logger.py.
VARIABLES
    call_args,      \* the arguments of the call
    call_result     \* what the call returned or raised (None before it returns)

fvars == << call_args, call_result >>

\* No such call is under way.
NoCall == call_args = None /\ call_result = None

\* record = {"execution_log": [], "success": True}; a key the cycle has not
\* set yet is None.
NewRecord ==
    [success |-> TRUE, error_message |-> None, account_state |-> None,
     decisions |-> None, timestamp |-> None, cycle_number |-> None]

NoFirstSeen == [k \in PosKeys |-> None]

\* The decisions an AI response may carry.
DecisionPool ==
    { DefaultDecision("AAPL", "close_long", 0),
      DefaultDecision("AAPL", "close_short", 0),
      DefaultDecision("AAPL", "hold", 0),
      DefaultDecision("AAPL", "buy", 0),
      Decision("AAPL", "open_long", Some(5), Some(800), Some(150), Some(180), 0),
      Decision("AAPL", "open_short", Some(5), Some(800), Some(180), Some(150), 0),
      Decision("TSLA", "open_long", Some(5), Some(50), Some(150), Some(180), 0),
      Decision("AAPL", "open_long", Some(0), Some(800), Some(0), Some(0), 0),
      Decision("AAPL", "open_long", Some(0), Some(800), None, Some(180), 0),
      Decision("TSLA", "open_short", Some(5), None, Some(180), Some(150), 0) }

SeqsUpTo(S, n) == UNION { [1..m -> S] : m \in 0..n }

\* What AIClient.complete may return: a text without a JSON array, or a text
\* with an array of decision objects.
ResponsesUpTo(n) ==
    { [array |-> FALSE, decisions |-> << >>] }
        \cup { [array |-> TRUE, decisions |-> ds] : ds \in SeqsUpTo(DecisionPool, n) }

Responses == ResponsesUpTo(MaxDecisions)

\* extract_decisions inside parse_full_decision_response: its exception is
\* caught and the decision list is empty.
ParsedDecisions(resp) == IF resp.array THEN resp.decisions ELSE << >>

\* AutoTrader.__init__ and DummyBrokerAPI.__init__
TraderFields ==
    /\ is_running = FALSE
    /\ call_count = 0
    /\ stop_until = None
    /\ last_reset_time = 0
    /\ position_first_seen_time = NoFirstSeen
    /\ exec_idx = 0
    /\ record = NewRecord
    /\ raised = FALSE
    /\ balance = InitialBalance
    /\ positions = EmptyPositions
    /\ orders = << >>
    /\ log = << >>
    /\ now = 0
    /\ ai_calls = 0
    /\ ai_response = None

NoCycle == decisions = << >> /\ sorted_decisions = << >>

TraderInit == pc = "idle" /\ TraderFields /\ NoCycle

\* ------------------------------------------------------- AutoTrader.run
\* run(): is_running = True, then the first cycle at once.
RunStart ==
    /\ pc = "idle"
    /\ pc' = "cycle"
    /\ is_running' = TRUE
    /\ UNCHANGED << call_count, stop_until, last_reset_time, position_first_seen_time,
                    decisions, sorted_decisions, exec_idx, record, raised,
                    balance, positions, orders, log, now, ai_calls, ai_response >>
    /\ UNCHANGED << mvars, fvars >>

\* stop(): only clears the flag.  Between the test of the flag and the first
\* statement of _run_cycle the coroutine does not yield, so no stop() falls
\* between them.
Stop ==
    /\ is_running
    /\ pc /= "cycle"
    /\ is_running' = FALSE
    /\ UNCHANGED << pc, call_count, stop_until, last_reset_time, position_first_seen_time,
                    decisions, sorted_decisions, exec_idx, record, raised,
                    balance, positions, orders, log, now, ai_calls, ai_response >>
    /\ UNCHANGED << mvars, fvars >>

\* stop_until is assigned from outside the class (the risk-control policy);
\* it is assigned before run() or while the loop sleeps, to a time at least
\* one scan interval ahead.
SetStopUntil ==
    /\ pc \in {"idle", "sleep"}
    /\ \E k \in ScanIntervalMinutes..MaxCooldown :
        /\ stop_until /= Some(now + k)
        /\ stop_until' = Some(now + k)
    /\ UNCHANGED << pc, is_running, call_count, last_reset_time, position_first_seen_time,
                    decisions, sorted_decisions, exec_idx, record, raised,
                    balance, positions, orders, log, now, ai_calls, ai_response >>
    /\ UNCHANGED << mvars, fvars >>

\* A cycle start that never looks at stop_until.
CooldownNever == FALSE

CooldownActive == IsSome(stop_until) /\ now < Val(stop_until)

\* The record of a cycle that ends early: success = False and a message.
FailedRecord(rec, kind, detail) ==
    [rec EXCEPT !.success = FALSE, !.error_message = Some(<< kind, detail >>)]

\* DecisionLogger.log: one more line at the end of the file.
LogAppend(lines, rec) == Append(lines, rec)

\* _run_cycle, step 1: the cooldown is active, the cycle is skipped.
CycleCooldown ==
    /\ pc = "cycle"
    /\ CooldownActive
    /\ call_count' = call_count + 1
    /\ log' = LogAppend(log, FailedRecord(NewRecord, "cooldown", Val(stop_until) - now))
    /\ record' = FailedRecord(NewRecord, "cooldown", Val(stop_until) - now)
    /\ decisions' = << >>
    /\ sorted_decisions' = << >>
    /\ exec_idx' = 0
    /\ pc' = "after"
    /\ UNCHANGED << is_running, stop_until, last_reset_time, position_first_seen_time, raised,
                    balance, positions, orders, now, ai_calls, ai_response >>
    /\ UNCHANGED << mvars, fvars >>

\* _run_cycle, step 2: the daily reset (daily_pnl is 0.0 at all times).
ResetTime == IF now - last_reset_time > DayMinutes THEN now ELSE last_reset_time

\* A context failure that returns without writing a record.
CycleContextFailsUnlogged ==
    /\ pc = "cycle"
    /\ ~CooldownActive
    /\ call_count' = call_count + 1
    /\ last_reset_time' = ResetTime
    /\ record' = FailedRecord(NewRecord, "context", 0)
    /\ decisions' = << >>
    /\ sorted_decisions' = << >>
    /\ exec_idx' = 0
    /\ pc' = "after"
    /\ UNCHANGED << is_running, stop_until, position_first_seen_time, raised,
                    balance, positions, orders, log, now, ai_calls, ai_response >>
    /\ UNCHANGED << mvars, fvars >>

\* _run_cycle, step 3, when _build_trading_context raises (the broker's
\* get_account or get_positions fails before anything is changed).
CycleContextFails ==
    /\ pc = "cycle"
    /\ ~CooldownActive
    /\ call_count' = call_count + 1
    /\ last_reset_time' = ResetTime
    /\ log' = LogAppend(log, FailedRecord(NewRecord, "context", 0))
    /\ record' = FailedRecord(NewRecord, "context", 0)
    /\ decisions' = << >>
    /\ sorted_decisions' = << >>
    /\ exec_idx' = 0
    /\ pc' = "after"
    /\ UNCHANGED << is_running, stop_until, position_first_seen_time, raised,
                    balance, positions, orders, now, ai_calls, ai_response >>
    /\ UNCHANGED << mvars, fvars >>

\* A bookkeeping that stamps every reported position at every build.
StampedAtEveryBuild(first_seen, reported, t) ==
    [k \in PosKeys |-> IF k \in reported THEN Some(t) ELSE None]

\* _build_trading_context, the first-seen bookkeeping: a reported position
\* keeps its time or gets the current one, every other key is deleted.
TrackFirstSeen(first_seen, reported, t) ==
    [k \in PosKeys |-> IF k \in reported
                       THEN (IF IsSome(first_seen[k]) THEN first_seen[k] ELSE Some(t))
                       ELSE None]

\* _run_cycle, steps 2 and 3 and the snapshots, when the context is built.
CycleContextBuilt ==
    /\ pc = "cycle"
    /\ ~CooldownActive
    /\ call_count' = call_count + 1
    /\ last_reset_time' = ResetTime
    /\ position_first_seen_time' =
            TrackFirstSeen(position_first_seen_time, get_positions(positions), now)
    /\ record' = [NewRecord EXCEPT !.account_state =
                      Some([total_balance |-> balance,
                            position_count |-> Cardinality(get_positions(positions))])]
    /\ decisions' = << >>
    /\ sorted_decisions' = << >>
    /\ exec_idx' = 0
    /\ pc' = "ai"
    /\ UNCHANGED << is_running, stop_until, raised, balance, positions, orders, log, now, ai_calls, ai_response >>
    /\ UNCHANGED << mvars, fvars >>

\* _run_cycle, step 4 to 7, when validate_decision raises something that is
\* no ValueError: the except branch records "获取AI决策失败" and returns.
AIDecisionFailsOn(R) ==
    /\ pc = "ai"
    /\ \E resp \in R :
        /\ ValidationRaises(ParsedDecisions(resp))
        /\ decisions' = << >>
        /\ ai_response' = Some(resp)
    /\ ai_calls' = ai_calls + 1
    /\ log' = LogAppend(log, FailedRecord(record, "ai_decision", 0))
    /\ record' = FailedRecord(record, "ai_decision", 0)
    /\ pc' = "after"
    /\ UNCHANGED << is_running, call_count, stop_until, last_reset_time,
                    position_first_seen_time, sorted_decisions, exec_idx, raised,
                    balance, positions, orders, now >>
    /\ UNCHANGED << mvars, fvars >>

\* _run_cycle, step 4 to 6, when the logging of the decisions raises: the
\* exception leaves _run_cycle, nothing is written.
AIDecisionPrintRaisesOn(R) ==
    /\ pc = "ai"
    /\ \E resp \in R :
        /\ ~ValidationRaises(ParsedDecisions(resp))
        /\ PrintRaises(ParsedDecisions(resp))
        /\ decisions' = ParsedDecisions(resp)
        /\ ai_response' = Some(resp)
    /\ ai_calls' = ai_calls + 1
    /\ raised' = TRUE
    /\ pc' = "after"
    /\ UNCHANGED << is_running, call_count, stop_until, last_reset_time,
                    position_first_seen_time, sorted_decisions, exec_idx, record,
                    balance, positions, orders, log, now >>
    /\ UNCHANGED << mvars, fvars >>

\* _run_cycle, step 4 to 7: the decisions are parsed and scheduled.
AIDecisionsScheduledOn(R) ==
    /\ pc = "ai"
    /\ \E resp \in R :
        /\ ~ValidationRaises(ParsedDecisions(resp))
        /\ ~PrintRaises(ParsedDecisions(resp))
        /\ decisions' = ParsedDecisions(resp)
        /\ sorted_decisions' = _sort_decisions_by_priority(ParsedDecisions(resp))
        /\ ai_response' = Some(resp)
    /\ ai_calls' = ai_calls + 1
    /\ record' = [record EXCEPT !.decisions = Some(<< >>)]
    /\ exec_idx' = 0
    /\ pc' = "exec"
    /\ UNCHANGED << is_running, call_count, stop_until, last_reset_time,
                    position_first_seen_time, raised, balance, positions, orders, log, now >>
    /\ UNCHANGED << mvars, fvars >>

AIDecisionFails == AIDecisionFailsOn(Responses)

AIDecisionPrintRaises == AIDecisionPrintRaisesOn(Responses)

AIDecisionsScheduled == AIDecisionsScheduledOn(Responses)

\* An execution loop that gives up at the first failing decision.
StopAtFailure(idx, outcome, n) == IF outcome.success THEN idx + 1 ELSE n

\* The try/except inside the execution loop: whatever the outcome, the loop
\* goes on with the next decision.
NextIndex(idx, outcome, n) == idx + 1

\* _run_cycle, step 8: one pass of the execution loop.
ExecuteDecision ==
    /\ pc = "exec"
    /\ exec_idx < Len(sorted_decisions)
    /\ \E price \in Prices :
        LET d == sorted_decisions[exec_idx + 1]
            out == _execute_decision(d, price, now, positions, orders, position_first_seen_time)
        IN  /\ positions' = out.positions
            /\ orders' = out.orders
            /\ position_first_seen_time' = out.first_seen
            /\ record' = [record EXCEPT !.decisions = Some(Append(Val(@), out.record))]
            /\ exec_idx' = NextIndex(exec_idx, out.record, Len(sorted_decisions))
    /\ UNCHANGED << pc, is_running, call_count, stop_until, last_reset_time, decisions,
                    sorted_decisions, raised, balance, log, now, ai_calls, ai_response >>
    /\ UNCHANGED << mvars, fvars >>

\* A record whose flag follows the outcomes of its decisions.
FlaggedByOutcomes(rec, t, n) ==
    [rec EXCEPT !.timestamp = Some(t), !.cycle_number = Some(n),
                !.success = \A i \in 1..Len(Val(rec.decisions)) : Val(rec.decisions)[i].success]

\* _run_cycle, step 9: the record is completed and written.
FinishedRecord(rec, t, n) == [rec EXCEPT !.timestamp = Some(t), !.cycle_number = Some(n)]

CycleFinish ==
    /\ pc = "exec"
    /\ exec_idx >= Len(sorted_decisions)
    /\ record' = FinishedRecord(record, now, call_count)
    /\ log' = LogAppend(log, FinishedRecord(record, now, call_count))
    /\ pc' = "after"
    /\ UNCHANGED << is_running, call_count, stop_until, last_reset_time,
                    position_first_seen_time, decisions, sorted_decisions, exec_idx, raised,
                    balance, positions, orders, now, ai_calls, ai_response >>
    /\ UNCHANGED << mvars, fvars >>

\* A loop without the try/except around _run_cycle.
AfterCycleNoCatch(exc, running) ==
    IF exc THEN "crashed" ELSE IF running THEN "sleep" ELSE "done"

\* run(): `except Exception` swallows what the cycle raised, then the
\* `while self.is_running` test.
AfterCycle(exc, running) == IF running THEN "sleep" ELSE "done"

CycleReturns ==
    /\ pc = "after"
    /\ pc' = AfterCycle(raised, is_running)
    /\ raised' = FALSE
    /\ ai_response' = None
    /\ UNCHANGED << is_running, call_count, stop_until, last_reset_time,
                    position_first_seen_time, decisions, sorted_decisions, exec_idx, record,
                    balance, positions, orders, log, now, ai_calls >>
    /\ UNCHANGED << mvars, fvars >>

\* run(): `if not self.is_running: break` after the sleep.
AfterSleep(running) == IF running THEN "cycle" ELSE "done"

\* run(): asyncio.sleep(scan_interval_minutes * 60) is over.
Wake ==
    /\ pc = "sleep"
    /\ call_count < MaxCycles \/ ~is_running
    /\ now' = now + ScanIntervalMinutes
    /\ pc' = AfterSleep(is_running)
    /\ UNCHANGED << is_running, call_count, stop_until, last_reset_time,
                    position_first_seen_time, decisions, sorted_decisions, exec_idx, record,
                    raised, balance, positions, orders, log, ai_calls, ai_response >>
    /\ UNCHANGED << mvars, fvars >>

\* --------------------------------------------- manager/trader_manager.py
MTraders == {"t1", "t2"}
MStocks == << "AAPL", "TSLA" >>

\* TraderManager.__init__; "none": no task was created for the trader.
MgrFields(state) ==
    /\ m_is_running = FALSE
    /\ m_call_count = 0
    /\ m_tasks = {}
    /\ m_pc = [t \in MTraders |-> state]
    /\ m_idx = [t \in MTraders |-> 0]
    /\ m_cycles = [t \in MTraders |-> 0]
    /\ m_cancel = [t \in MTraders |-> FALSE]
    /\ m_log = [t \in MTraders |-> << >>]
    /\ m_positions = [t \in MTraders |-> EmptyPositions]
    /\ m_orders = [t \in MTraders |-> << >>]

MgrInit == MgrFields("none")

\* start_all(): a broker and a task per configured trader.
StartAll ==
    /\ ~m_is_running
    /\ \A t \in MTraders : m_pc[t] = "none"
    /\ m_is_running' = TRUE
    /\ m_tasks' = MTraders
    /\ m_pc' = [t \in MTraders |-> "created"]
    /\ UNCHANGED << m_call_count, m_idx, m_cycles, m_cancel, m_log, m_positions, m_orders >>
    /\ UNCHANGED << tvars, fvars >>

\* stop_all(): clears the flag and cancels every task.
StopAll ==
    /\ m_is_running
    /\ m_is_running' = FALSE
    /\ m_cancel' = [t \in MTraders |-> m_cancel[t] \/ t \in m_tasks]
    /\ m_tasks' = {}
    /\ UNCHANGED << m_call_count, m_pc, m_idx, m_cycles, m_log, m_positions, m_orders >>
    /\ UNCHANGED << tvars, fvars >>

\* The awaits at which a task of _run_trader_loop is suspended.
MgrSuspended == {"created", "fetch", "ai", "sleep"}

\* A cancelled task gets CancelledError at the await it is suspended at;
\* `except Exception` does not catch it, the task ends there.
MgrCancelled(t) ==
    /\ m_cancel[t]
    /\ m_pc[t] \in MgrSuspended
    /\ m_pc' = [m_pc EXCEPT ![t] = "cancelled"]
    /\ UNCHANGED << m_is_running, m_call_count, m_tasks, m_idx, m_cycles, m_cancel, m_log,
                    m_positions, m_orders >>
    /\ UNCHANGED << tvars, fvars >>

\* The `while self._is_running` test, at the start of the task and after
\* the sleep: a new pass over the stocks, or the end of the task.
MgrLoopTest(t) ==
    /\ ~m_cancel[t]
    /\ m_pc[t] \in {"created", "sleep"}
    /\ m_cycles[t] < MaxMgrCycles \/ ~m_is_running
    /\ IF m_is_running
       THEN /\ m_pc' = [m_pc EXCEPT ![t] = "fetch"]
            /\ m_idx' = [m_idx EXCEPT ![t] = 1]
            /\ m_cycles' = [m_cycles EXCEPT ![t] = @ + 1]
       ELSE /\ m_pc' = [m_pc EXCEPT ![t] = "finished"]
            /\ UNCHANGED << m_idx, m_cycles >>
    /\ UNCHANGED << m_is_running, m_call_count, m_tasks, m_cancel, m_log, m_positions, m_orders >>
    /\ UNCHANGED << tvars, fvars >>

\* After the last statement for a symbol: the next symbol, or the sleep.
MgrNextPc(i) == IF i < Len(MStocks) THEN "fetch" ELSE "sleep"
MgrNextIdx(i) == IF i < Len(MStocks) THEN i + 1 ELSE 0

\* fetch_stock_with_indicators returned: the prompt is built and the AI asked.
MgrFetched(t) ==
    /\ ~m_cancel[t]
    /\ m_pc[t] = "fetch"
    /\ m_pc' = [m_pc EXCEPT ![t] = "ai"]
    /\ UNCHANGED << m_is_running, m_call_count, m_tasks, m_idx, m_cycles, m_cancel, m_log,
                    m_positions, m_orders >>
    /\ UNCHANGED << tvars, fvars >>

\* The fetch or the parsing of the AI answer raised: the except branch logs
\* a hold for the symbol and goes on.
MgrSymbolFails(t) ==
    /\ ~m_cancel[t]
    /\ m_pc[t] \in {"fetch", "ai"}
    /\ m_log' = [m_log EXCEPT ![t] = LogAppend(@, [symbol |-> MStocks[m_idx[t]], action |-> "hold"])]
    /\ m_pc' = [m_pc EXCEPT ![t] = MgrNextPc(m_idx[t])]
    /\ m_idx' = [m_idx EXCEPT ![t] = MgrNextIdx(@)]
    /\ UNCHANGED << m_is_running, m_call_count, m_tasks, m_cycles, m_cancel, m_positions, m_orders >>
    /\ UNCHANGED << tvars, fvars >>

\* ai.complete returned: parse_decision, the buy if any, the log line, the
\* count.  The answer is a hold, or a buy of one share of the symbol asked about.
MgrDecided(t) ==
    /\ ~m_cancel[t]
    /\ m_pc[t] = "ai"
    /\ \E action \in {"hold", "buy"} :
        LET symbol == MStocks[m_idx[t]]
            res == IF action = "buy"
                   THEN buy_stock(m_positions[t], m_orders[t], symbol, 1)
                   ELSE TraderResult(FALSE, m_positions[t], m_orders[t])
        IN  /\ m_positions' = [m_positions EXCEPT ![t] = res.positions]
            /\ m_orders' = [m_orders EXCEPT ![t] = res.orders]
            /\ m_log' = [m_log EXCEPT ![t] = LogAppend(@, [symbol |-> symbol, action |-> action])]
    /\ m_call_count' = m_call_count + 1
    /\ m_pc' = [m_pc EXCEPT ![t] = MgrNextPc(m_idx[t])]
    /\ m_idx' = [m_idx EXCEPT ![t] = MgrNextIdx(@)]
    /\ UNCHANGED << m_is_running, m_tasks, m_cycles, m_cancel >>
    /\ UNCHANGED << tvars, fvars >>

\* ---------------------------------------------------------- specification
vars == << tvars, mvars, fvars >>

\* Either an AutoTrader is run, or the manager and its legacy loops are.
Init ==
    \/ TraderInit /\ MgrFields("unused") /\ NoCall
    \/ pc = "unused" /\ TraderFields /\ NoCycle /\ MgrInit /\ NoCall

\* The steps of one task of the manager.
MgrTaskStep(t) ==
    \/ MgrCancelled(t)
    \/ MgrLoopTest(t)
    \/ MgrFetched(t)
    \/ MgrSymbolFails(t)
    \/ MgrDecided(t)

Next ==
    \/ RunStart
    \/ Stop
    \/ SetStopUntil
    \/ CycleCooldown
    \/ CycleContextFails
    \/ CycleContextBuilt
    \/ AIDecisionFails
    \/ AIDecisionPrintRaises
    \/ AIDecisionsScheduled
    \/ ExecuteDecision
    \/ CycleFinish
    \/ CycleReturns
    \/ Wake
    \/ StartAll
    \/ StopAll
    \/ \E t \in MTraders : MgrCancelled(t)
    \/ \E t \in MTraders : MgrLoopTest(t)
    \/ \E t \in MTraders : MgrFetched(t)
    \/ \E t \in MTraders : MgrSymbolFails(t)
    \/ \E t \in MTraders : MgrDecided(t)

Spec == Init /\ [][Next]_vars

\* The same program with AI responses of at most MaxFairDecisions decisions:
\* every way a cycle can end (cooldown, context failure, decision failure,
\* an exception leaving _run_cycle, decisions executed) stays possible.
FairResponses == ResponsesUpTo(MaxFairDecisions)

FairAIDecisionFails == AIDecisionFailsOn(FairResponses)

FairAIDecisionPrintRaises == AIDecisionPrintRaisesOn(FairResponses)

FairAIDecisionsScheduled == AIDecisionsScheduledOn(FairResponses)

\* The steps of the AutoTrader's run() coroutine.
FairTraderStep ==
    \/ RunStart
    \/ CycleCooldown
    \/ CycleContextFails
    \/ CycleContextBuilt
    \/ FairAIDecisionFails
    \/ FairAIDecisionPrintRaises
    \/ FairAIDecisionsScheduled
    \/ ExecuteDecision
    \/ CycleFinish
    \/ CycleReturns
    \/ Wake

FairNext ==
    \/ RunStart
    \/ Stop
    \/ SetStopUntil
    \/ CycleCooldown
    \/ CycleContextFails
    \/ CycleContextBuilt
    \/ FairAIDecisionFails
    \/ FairAIDecisionPrintRaises
    \/ FairAIDecisionsScheduled
    \/ ExecuteDecision
    \/ CycleFinish
    \/ CycleReturns
    \/ Wake
    \/ StartAll
    \/ StopAll
    \/ \E t \in MTraders : MgrCancelled(t)
    \/ \E t \in MTraders : MgrLoopTest(t)
    \/ \E t \in MTraders : MgrFetched(t)
    \/ \E t \in MTraders : MgrSymbolFails(t)
    \/ \E t \in MTraders : MgrDecided(t)

\* The fairness of the event loop: a task that can run does run, and a
\* sleep ends.
FairSpec ==
    /\ Init
    /\ [][FairNext]_vars
    /\ WF_vars(FairTraderStep)
    /\ \A t \in MTraders : WF_vars(MgrTaskStep(t))

\* ------------------------------------------ the scheduler as a function
SortActions == ValidActions \cup {"buy"}

\* Decision lists whose i-th decision carries i as its reasoning.
SortInputs ==
    { [i \in 1..Len(acts) |-> DefaultDecision("AAPL", acts[i], i)] :
        acts \in SeqsUpTo(SortActions, MaxSortLen) }

SortInit ==
    /\ pc = "sort"
    /\ decisions \in SortInputs
    /\ sorted_decisions = << >>
    /\ TraderFields
    /\ MgrFields("unused")
    /\ NoCall

SortStep ==
    /\ pc = "sort"
    /\ sorted_decisions' = _sort_decisions_by_priority(decisions)
    /\ pc' = "sorted"
    /\ UNCHANGED << is_running, call_count, stop_until, last_reset_time,
                    position_first_seen_time, decisions, exec_idx, record, raised,
                    balance, positions, orders, log, now, ai_calls, ai_response >>
    /\ UNCHANGED << mvars, fvars >>

SpecSort == SortInit /\ [][SortStep]_vars

\* ------------------------------------- decision/engine.py: the parser
\* A text is a sequence of pieces: every character the parser looks at
\* (bracket, brace, quote, colon, comma, blank) is a piece of its own, and a
\* run of other characters ("AAPL", "hold", "800") is one piece.
DQ == "\""
Blank == " "
CurlyDoubleQuotes == {"u201c", "u201d"}
CurlySingleQuotes == {"u2018", "u2019"}
NumberWords == {"0", "5"}

MinOf(S) == CHOOSE x \in S : \A y \in S : x <= y
MaxOf(S) == CHOOSE x \in S : \A y \in S : x >= y

\* str.find: the first position of piece c (positions count from 1 here, so
\* 0 is Python's -1 and 1 is Python's 0).
Find(text, c) ==
    LET at == {i \in 1..Len(text) : text[i] = c}
    IN  IF at = {} THEN 0 ELSE MinOf(at)

\* str.strip
Strip(text) ==
    LET solid == {i \in 1..Len(text) : text[i] /= Blank}
    IN  IF solid = {} THEN << >> ELSE SubSeq(text, MinOf(solid), MaxOf(solid))

\* extract_cot_trace
extract_cot_trace(response) ==
    LET json_start == Find(response, "[")
    IN  IF json_start > 1 THEN Strip(SubSeq(response, 1, json_start - 1))
        ELSE Strip(response)

\* The depth scan of extract_decisions: the position of the "]" that takes
\* the depth back to 0, or 0 when there is none.
RECURSIVE ScanDepth(_, _, _)
ScanDepth(response, i, depth) ==
    IF i > Len(response) THEN 0
    ELSE IF response[i] = "[" THEN ScanDepth(response, i + 1, depth + 1)
    ELSE IF response[i] = "]"
         THEN (IF depth - 1 = 0 THEN i ELSE ScanDepth(response, i + 1, depth - 1))
    ELSE ScanDepth(response, i + 1, depth)

\* fix_missing_quotes
fix_missing_quotes(json_str) ==
    [i \in 1..Len(json_str) |->
        IF json_str[i] \in CurlyDoubleQuotes THEN DQ
        ELSE IF json_str[i] \in CurlySingleQuotes THEN "'"
        ELSE json_str[i]]

\* json.loads: a value is a string, a number, null, an array or an object.
JsonVal(kind, text, items) == [kind |-> kind, text |-> text, items |-> items]
JsonFail == [ok |-> FALSE, pos |-> 0, val |-> JsonVal("null", << >>, << >>)]
JsonOk(pos, val) == [ok |-> TRUE, pos |-> pos, val |-> val]

RECURSIVE SkipBlanks(_, _)
SkipBlanks(text, i) ==
    IF i <= Len(text) /\ text[i] = Blank THEN SkipBlanks(text, i + 1) ELSE i

JsonString(text, i) ==
    LET closing == {j \in (i + 1)..Len(text) : text[j] = DQ}
    IN  IF closing = {} THEN JsonFail
        ELSE JsonOk(MinOf(closing) + 1,
                    JsonVal("string", SubSeq(text, i + 1, MinOf(closing) - 1), << >>))

RECURSIVE JsonValue(_, _), JsonElements(_, _, _), JsonMembers(_, _, _)
JsonValue(text, i) ==
    IF i > Len(text) THEN JsonFail
    ELSE IF text[i] = DQ THEN JsonString(text, i)
    ELSE IF text[i] \in NumberWords THEN JsonOk(i + 1, JsonVal("number", << text[i] >>, << >>))
    ELSE IF text[i] = "null" THEN JsonOk(i + 1, JsonVal("null", << >>, << >>))
    ELSE IF text[i] = "["
         THEN LET j == SkipBlanks(text, i + 1)
              IN  IF j <= Len(text) /\ text[j] = "]"
                  THEN JsonOk(j + 1, JsonVal("array", << >>, << >>))
                  ELSE JsonElements(text, j, << >>)
    ELSE IF text[i] = "{"
         THEN LET j == SkipBlanks(text, i + 1)
              IN  IF j <= Len(text) /\ text[j] = "}"
                  THEN JsonOk(j + 1, JsonVal("object", << >>, << >>))
                  ELSE JsonMembers(text, j, << >>)
    ELSE JsonFail

JsonElements(text, i, acc) ==
    LET v == JsonValue(text, i)
        k == SkipBlanks(text, v.pos)
    IN  IF ~v.ok \/ k > Len(text) THEN JsonFail
        ELSE IF text[k] = "," THEN JsonElements(text, SkipBlanks(text, k + 1), Append(acc, v.val))
        ELSE IF text[k] = "]" THEN JsonOk(k + 1, JsonVal("array", << >>, Append(acc, v.val)))
        ELSE JsonFail

JsonMembers(text, i, acc) ==
    IF i > Len(text) \/ text[i] /= DQ THEN JsonFail
    ELSE LET key == JsonString(text, i)
             colon == SkipBlanks(text, key.pos)
         IN  IF ~key.ok \/ colon > Len(text) \/ text[colon] /= ":" THEN JsonFail
             ELSE LET v == JsonValue(text, SkipBlanks(text, colon + 1))
                      k == SkipBlanks(text, v.pos)
                      member == [key |-> key.val.text, value |-> v.val]
                  IN  IF ~v.ok \/ k > Len(text) THEN JsonFail
                      ELSE IF text[k] = ","
                           THEN JsonMembers(text, SkipBlanks(text, k + 1), Append(acc, member))
                      ELSE IF text[k] = "}"
                           THEN JsonOk(k + 1, JsonVal("object", << >>, Append(acc, member)))
                      ELSE JsonFail

json_loads(text) ==
    LET v == JsonValue(text, SkipBlanks(text, 1))
    IN  IF v.ok /\ SkipBlanks(text, v.pos) = Len(text) + 1 THEN v ELSE JsonFail

\* dict.get(name, default) on a parsed object: the last member of that name.
Get(obj, name, default) ==
    LET at == {i \in 1..Len(obj.items) : obj.items[i].key = << name >>}
    IN  IF at = {} THEN default ELSE obj.items[MaxOf(at)].value

JsonText(text) == JsonVal("string", text, << >>)
JsonZero == JsonVal("number", << "0" >>, << >>)

\* Decision(...) as extract_decisions fills it: every field holds the JSON
\* value of its key, or the default.  (confidence and risk_usd are read by
\* nothing and are left out.)
DecisionOf(d) ==
    [symbol |-> Get(d, "symbol", JsonText(<< >>)),
     action |-> Get(d, "action", JsonText(<< "hold" >>)),
     leverage |-> Get(d, "leverage", JsonZero),
     position_size_usd |-> Get(d, "position_size_usd", JsonZero),
     stop_loss |-> Get(d, "stop_loss", JsonZero),
     take_profit |-> Get(d, "take_profit", JsonZero),
     reasoning |-> Get(d, "reasoning", JsonText(<< >>))]

\* What extract_decisions returns (error = "none") or raises.
Extracted(error, content, parsed) ==
    [error |-> error, content |-> content, decisions |-> parsed]

extract_decisions(response) ==
    LET array_start == Find(response, "[")
        array_end == ScanDepth(response, array_start, 0)
        json_content == Strip(SubSeq(response, array_start, array_end))
        loaded == json_loads(fix_missing_quotes(json_content))
        decisions_data == loaded.val.items
    IN  IF array_start = 0 THEN Extracted("ValueError", << >>, << >>)
        ELSE IF array_end = 0 THEN Extracted("ValueError", << >>, << >>)
        ELSE IF ~loaded.ok THEN Extracted("ValueError", json_content, << >>)
        ELSE IF \E i \in 1..Len(decisions_data) : decisions_data[i].kind /= "object"
             THEN Extracted("AttributeError", json_content, << >>)
        ELSE Extracted("none", json_content,
                       [i \in 1..Len(decisions_data) |-> DecisionOf(decisions_data[i])])

\* The decision as validate_decision reads it: a field that holds no number
\* fails every comparison with a number (None), a one-piece string is that
\* piece.
NumberOf(word) == IF word = "5" THEN 5 ELSE 0
OptionOf(v) == IF v.kind = "number" THEN Some(NumberOf(v.text[1])) ELSE None
WordOf(v) == IF v.kind = "string" /\ Len(v.text) = 1 THEN v.text[1] ELSE ""

AsDecision(d) ==
    Decision(WordOf(d.symbol), WordOf(d.action), OptionOf(d.leverage),
             OptionOf(d.position_size_usd), OptionOf(d.stop_loss), OptionOf(d.take_profit), 0)

\* FullDecision(...), or the exception that leaves the function.
FullDecision(exception, cot_trace, parsed) ==
    [raised |-> exception, cot_trace |-> cot_trace, decisions |-> parsed]

\* A parser that lets the exception of extract_decisions through.
ParseWithoutCatch(response, account_equity, btc_eth_leverage, altcoin_leverage) ==
    LET got == extract_decisions(response)
    IN  FullDecision(got.error, extract_cot_trace(response), got.decisions)

\* parse_full_decision_response: `action not in valid_actions` raises
\* TypeError for an action that is a list or a dict.
parse_full_decision_response(response, account_equity, btc_eth_leverage, altcoin_leverage) ==
    LET cot_trace == extract_cot_trace(response)
        got == extract_decisions(response)
        raises(d) ==
            \/ d.action.kind \in {"array", "object"}
            \/ validate_decision(AsDecision(d), account_equity, btc_eth_leverage,
                                 altcoin_leverage) = "TypeError"
    IN  IF got.error /= "none" THEN FullDecision("none", cot_trace, << >>)
        ELSE IF \E i \in 1..Len(got.decisions) : raises(got.decisions[i])
             THEN FullDecision("TypeError", cot_trace, << >>)
        ELSE FullDecision("none", cot_trace, got.decisions)

\* ------------------------------------- calls of the parser on its own
MaxPrefixLen == 2
MaxSuffixLen == 1

\* Every trader field but pc.
trest == << is_running, call_count, stop_until, last_reset_time,
            position_first_seen_time, decisions, sorted_decisions, exec_idx, record,
            raised, balance, positions, orders, log, now, ai_calls, ai_response >>

\* No trader and no manager is at work.
Idle ==
    /\ decisions = << >>
    /\ sorted_decisions = << >>
    /\ TraderFields
    /\ MgrFields("unused")

JsonStr(word) == << DQ, word, DQ >>
JsonPair(key, value) == JsonStr(key) \o << ":" >> \o value
JsonObj(members) == << "{" >> \o members \o << "}" >>
JsonArr(elements) == << "[" >> \o elements \o << "]" >>

\* Arrays of decision objects in correct JSON.
WellFormedArrays ==
    { JsonArr(<< >>),
      JsonArr(JsonObj(JsonPair("action", JsonStr("hold")))),
      JsonArr(JsonObj(JsonPair("symbol", JsonStr("AAPL")) \o << "," >>
                      \o JsonPair("reasoning", JsonStr("]")))),
      JsonArr(JsonObj(JsonPair("leverage", JsonArr(<< "5" >>)))),
      JsonArr(JsonObj(JsonPair("action", JsonStr("open_long")) \o << "," >>
                      \o JsonPair("leverage", << "null" >>))),
      JsonArr(JsonObj(JsonPair("action", JsonStr("hold"))) \o << ",", Blank >>
              \o JsonObj(JsonPair("symbol", JsonStr("AAPL")))) }

\* The same in typographic quotes, which fix_missing_quotes repairs.
CurlyArrays ==
    { JsonArr(JsonObj(<< "u201c", "action", "u201d", ":", "u201c", "hold", "u201d" >>)) }

\* Correct JSON whose elements are no objects.
NonObjectArrays == { JsonArr(<< "5" >>) }

\* Brackets with no JSON between them, and a bracket that is never closed.
InvalidJsonArrays == { JsonArr(JsonObj(JsonStr("action"))) }
UnbalancedArrays == { << "[", Blank, "{" >> }

\* Texts without any bracket.
NoArrays == { << >>, << "hi" >> }

ParseArrays ==
    WellFormedArrays \cup CurlyArrays \cup NonObjectArrays \cup InvalidJsonArrays
        \cup UnbalancedArrays \cup NoArrays
ParsePrefixes == SeqsUpTo({"hi", Blank, "[", "]"}, MaxPrefixLen)
ParseSuffixes == SeqsUpTo({"hi", "]"}, MaxSuffixLen)

ParseCall(prefix, array, suffix) ==
    [prefix |-> prefix, array |-> array, suffix |-> suffix,
     response |-> prefix \o array \o suffix]

ParseInit ==
    /\ pc = "parse"
    /\ \E prefix \in ParsePrefixes, array \in ParseArrays, suffix \in ParseSuffixes :
          call_args = Some(ParseCall(prefix, array, suffix))
    /\ call_result = None
    /\ Idle

\* extract_cot_trace, extract_decisions and parse_full_decision_response on
\* the same response.
ParseStep ==
    /\ pc = "parse"
    /\ call_result' =
          Some([cot_trace |-> extract_cot_trace(Val(call_args).response),
                extracted |-> extract_decisions(Val(call_args).response),
                full |-> parse_full_decision_response(Val(call_args).response, InitialBalance,
                                                      BtcEthLeverage, AltcoinLeverage)])
    /\ pc' = "parsed"
    /\ UNCHANGED << trest, call_args, mvars >>

SpecParse == ParseInit /\ [][ParseStep]_vars

\* ------------------------------------- calls of validate_decision on its own
ValidateActions == ValidActions \cup {"buy"}
ValidateSymbols == {"AAPL", "TSLA"}
ValidateLeverages == {-1, 0, 1, 5, 6, 10, 11}
ValidateSizes ==
    {-1, 0, 1, 1515, 1516, 10100, 10101, 15150, 15151, 101000, 101001, 151500, 151501}
ValidatePrices == {-1, 0, 50, 100}
ValidateEquities == {1000, 10000}
\* (btc_eth_leverage, altcoin_leverage)
LeverageConfigs == {<< 10, 5 >>, << 5, 10 >>}

ValidateCall(d, account_equity, config) ==
    [decision |-> d, account_equity |-> account_equity,
     btc_eth_leverage |-> config[1], altcoin_leverage |-> config[2]]

ValidateInit ==
    /\ pc = "validate"
    /\ \E sym \in ValidateSymbols, act \in ValidateActions, lev \in ValidateLeverages,
          size \in ValidateSizes, sl \in ValidatePrices, tp \in ValidatePrices,
          account_equity \in ValidateEquities, config \in LeverageConfigs :
          call_args = Some(ValidateCall(
              Decision(sym, act, Some(lev), Some(size), Some(sl), Some(tp), 0),
              account_equity, config))
    /\ call_result = None
    /\ Idle

ValidateStep ==
    /\ pc = "validate"
    /\ call_result' = Some(validate_decision(Val(call_args).decision,
                                             Val(call_args).account_equity,
                                             Val(call_args).btc_eth_leverage,
                                             Val(call_args).altcoin_leverage))
    /\ pc' = "validated"
    /\ UNCHANGED << trest, call_args, mvars >>

SpecValidate == ValidateInit /\ [][ValidateStep]_vars

\* ------------------------------------- logger/decision_logger.py: analysis
\* A record as the analysis reads it: the outcomes of its decisions, and
\* account_state.total_balance (None when the record has no account_state).
LogRecord(outcomes, total_balance) ==
    [decisions |-> outcomes, total_balance |-> total_balance]

RECURSIVE GCD(_, _)
GCD(a, b) == IF b = 0 THEN a ELSE GCD(b, a % b)
Abs(n) == IF n < 0 THEN -n ELSE n

\* An exact quotient num / den, den > 0, in lowest terms.
Frac(num, den) ==
    LET g == GCD(Abs(num), den)
    IN  [num |-> num \div g, den |-> den \div g]
FracEq(a, b) == a.num * b.den = b.num * a.den
FracAdd(a, b) == Frac(a.num * b.den + b.num * a.den, a.den * b.den)
Sign(n) == IF n > 0 THEN 1 ELSE IF n < 0 THEN -1 ELSE 0

RECURSIVE FracSum(_)
FracSum(fs) == IF fs = << >> THEN Frac(0, 1) ELSE FracAdd(fs[1], FracSum(Tail(fs)))

\* The equities that follow the last record without a positive balance.
RECURSIVE EquitiesAfterGap(_)
EquitiesAfterGap(records) ==
    IF records = << >> THEN << >>
    ELSE LET last == records[Len(records)]
             equity == IF IsSome(last.total_balance) THEN Val(last.total_balance) ELSE 0
         IN  IF equity > 0
             THEN EquitiesAfterGap(SubSeq(records, 1, Len(records) - 1)) \o << equity >>
             ELSE << >>

\* equities: the total_balance of every record that has a positive one.
RECURSIVE Equities(_)
Equities(records) ==
    IF records = << >> THEN << >>
    ELSE LET equity == IF IsSome(records[1].total_balance)
                       THEN Val(records[1].total_balance) ELSE 0
         IN  (IF equity > 0 THEN << equity >> ELSE << >>) \o Equities(Tail(records))

\* returns: one per pair of consecutive equities.
PeriodReturns(equities) ==
    [i \in 1..(Len(equities) - 1) |-> Frac(equities[i + 1] - equities[i], equities[i])]

\* What _calculate_sharpe_ratio returns: 0.0, the sentinel 999.0 or -999.0,
\* or the quotient mean_return / std_dev, of which the sign is kept.
SharpeZero == [kind |-> "zero", sign |-> 0]
SharpeSentinel(sign) == [kind |-> "sentinel", sign |-> sign]
SharpeQuotient(sign) == [kind |-> "quotient", sign |-> sign]

\* A ratio that looks at the mean of the returns alone.
SentinelByMean(records) ==
    LET equities == IF records = << >> THEN << >>
                    ELSE [i \in 1..Len(records) |->
                             IF IsSome(records[i].total_balance)
                             THEN Val(records[i].total_balance) ELSE 0]
    IN  IF Len(equities) < 2 THEN {SharpeZero}
        ELSE IF equities[Len(equities)] > equities[1] THEN {SharpeSentinel(1)}
        ELSE IF equities[Len(equities)] < equities[1] THEN {SharpeSentinel(-1)}
        ELSE {SharpeZero}

\* _calculate_sharpe_ratio: the values it can return.  The balances are whole
\* numbers, so equal returns are equal floats; the float mean of one or two
\* equal returns is that return (std_dev == 0), the float mean of three or
\* more equal non-zero returns may differ from them in the last bit, and
\* then std_dev is tiny but not 0 and the quotient is returned.
_calculate_sharpe_ratio(records) ==
    LET equities == Equities(records)
        returns == PeriodReturns(equities)
        mean_sign == Sign(FracSum(returns).num)
    IN  IF Len(records) < 2 THEN {SharpeZero}
        ELSE IF Len(equities) < 2 THEN {SharpeZero}
        ELSE IF Len(returns) = 0 THEN {SharpeZero}
        ELSE IF \A i \in 1..Len(returns) : FracEq(returns[i], returns[1])
             THEN IF mean_sign = 0 THEN {SharpeZero}
                  ELSE IF Len(returns) <= 2 THEN {SharpeSentinel(mean_sign)}
                  ELSE {SharpeSentinel(mean_sign), SharpeQuotient(mean_sign)}
        ELSE {SharpeQuotient(mean_sign)}

\* An outcome as analyze_performance reads it from a record's decisions.  The
\* numbers are whole, so float() and int() leave them as they are.
LogOutcome(symbol, action, price, quantity, leverage, success) ==
    [symbol |-> symbol, action |-> action, price |-> price, quantity |-> quantity,
     leverage |-> leverage, success |-> success]

LogSymbols == {"AAPL", "TSLA"}
LogKeys == LogSymbols \X Sides
NoOpenPositions == [k \in LogKeys |-> None]
RecentTradesKept == 10

\* The outcomes of all records in scan order, each with the position of its
\* record (the record's timestamp).
RECURSIVE ScanOrder(_, _)
ScanOrder(records, i) ==
    IF i > Len(records) THEN << >>
    ELSE [j \in 1..Len(records[i].decisions) |->
             [outcome |-> records[i].decisions[j], timestamp |-> i]]
         \o ScanOrder(records, i + 1)

\* open_positions[...] = {...}
OpenDescriptor(action, timestamp) ==
    [side |-> IF action.action = "open_long" THEN "long" ELSE "short",
     openPrice |-> action.price, openTime |-> timestamp,
     quantity |-> action.quantity, leverage |-> action.leverage]

\* A trade whose pnl leaves the leverage out.
UnleveredTrade(open_pos, action, side, timestamp) ==
    LET open_price == open_pos.openPrice
        close_price == action.price
        pnl_pct == IF open_price <= 0 THEN Frac(0, 1)
                   ELSE IF side = "long" THEN Frac((close_price - open_price) * 100, open_price)
                   ELSE Frac((open_price - close_price) * 100, open_price)
    IN  [symbol |-> action.symbol, side |-> side, open_price |-> open_price,
         close_price |-> close_price,
         pnl |-> Frac(open_pos.quantity * open_price * pnl_pct.num, pnl_pct.den * 100),
         pnl_pct |-> pnl_pct,
         open_time |-> open_pos.openTime, close_time |-> timestamp]

\* outcome = {...}: the trade of a close paired with its open descriptor.
TradeOutcome(open_pos, action, side, timestamp) ==
    LET open_price == open_pos.openPrice
        close_price == action.price
        quantity == open_pos.quantity
        leverage == open_pos.leverage
        pnl_pct == IF open_price <= 0 THEN Frac(0, 1)
                   ELSE IF side = "long" THEN Frac((close_price - open_price) * 100, open_price)
                   ELSE Frac((open_price - close_price) * 100, open_price)
        position_value == quantity * open_price
    IN  [symbol |-> action.symbol, side |-> side, open_price |-> open_price,
         close_price |-> close_price,
         pnl |-> Frac(position_value * pnl_pct.num * leverage, pnl_pct.den * 100),
         pnl_pct |-> pnl_pct,
         open_time |-> open_pos.openTime, close_time |-> timestamp]

\* A scan that leaves the descriptor in place when a close is paired.
RECURSIVE ScanKeepingDescriptor(_, _, _)
ScanKeepingDescriptor(actions, i, open_positions) ==
    IF i > Len(actions) THEN << >>
    ELSE LET action == actions[i].outcome
             side == IF action.action \in {"open_long", "close_long"} THEN "long" ELSE "short"
             key == << action.symbol, side >>
         IN  IF action.symbol = "" \/ action.action = ""
             THEN ScanKeepingDescriptor(actions, i + 1, open_positions)
             ELSE IF action.action \in {"open_long", "open_short"}
             THEN ScanKeepingDescriptor(actions, i + 1,
                      [open_positions EXCEPT
                          ![key] = Some(OpenDescriptor(action, actions[i].timestamp))])
             ELSE IF action.action \in {"close_long", "close_short"} /\ IsSome(open_positions[key])
             THEN << TradeOutcome(Val(open_positions[key]), action, side, actions[i].timestamp) >>
                  \o ScanKeepingDescriptor(actions, i + 1, open_positions)
             ELSE ScanKeepingDescriptor(actions, i + 1, open_positions)

\* The scan of analyze_performance over the outcomes from position i on:
\* the trades it appends.
RECURSIVE ScanTrades(_, _, _)
ScanTrades(actions, i, open_positions) ==
    IF i > Len(actions) THEN << >>
    ELSE LET action == actions[i].outcome
             side == IF action.action \in {"open_long", "close_long"} THEN "long" ELSE "short"
             key == << action.symbol, side >>
         IN  IF action.symbol = "" \/ action.action = ""
             THEN ScanTrades(actions, i + 1, open_positions)
             ELSE IF action.action \in {"open_long", "open_short"}
             THEN ScanTrades(actions, i + 1,
                      [open_positions EXCEPT
                          ![key] = Some(OpenDescriptor(action, actions[i].timestamp))])
             ELSE IF action.action \in {"close_long", "close_short"} /\ IsSome(open_positions[key])
             THEN << TradeOutcome(Val(open_positions[key]), action, side, actions[i].timestamp) >>
                  \o ScanTrades(actions, i + 1, [open_positions EXCEPT ![key] = None])
             ELSE ScanTrades(actions, i + 1, open_positions)

Reverse(seq) == [i \in 1..Len(seq) |-> seq[Len(seq) + 1 - i]]
LastOf(seq, n) == IF Len(seq) > n THEN SubSeq(seq, Len(seq) - n + 1, Len(seq)) ELSE seq

\* The first ten trades of the scan, newest first.
FirstTradesKept(trades) ==
    Reverse(IF Len(trades) > RecentTradesKept THEN SubSeq(trades, 1, RecentTradesKept) ELSE trades)

\* recent_trades: the last ten trades of the scan, newest first.
RecentTrades(trades) == Reverse(LastOf(trades, RecentTradesKept))

\* analysis["win_rate"]
WinRate(winning_trades, total_trades) == Frac(winning_trades * 100, total_trades)

\* A profit factor that keeps the sign of the losses.
SignedProfitFactor(total_win_amount, total_loss_amount) ==
    IF total_loss_amount.num /= 0
    THEN Frac(-(total_win_amount.num * total_loss_amount.den),
              total_win_amount.den * (-total_loss_amount.num))
    ELSE Frac(0, 1)

\* analysis["profit_factor"]: the sum of the pnl > 0 over minus the sum of
\* the pnl <= 0, which is < 0 when it is not 0.
ProfitFactor(total_win_amount, total_loss_amount) ==
    IF total_loss_amount.num /= 0
    THEN Frac(total_win_amount.num * total_loss_amount.den,
              total_win_amount.den * (-total_loss_amount.num))
    ELSE Frac(0, 1)

\* The pnl of the trades at the positions idx, in scan order.
RECURSIVE PnlOf(_, _, _)
PnlOf(trades, idx, i) ==
    IF i > Len(trades) THEN << >>
    ELSE (IF i \in idx THEN << trades[i].pnl >> ELSE << >>) \o PnlOf(trades, idx, i + 1)

\* Per-symbol statistics that leave out the trades with pnl 0.
StatsWithoutFlatTrades(trades) ==
    [symbol \in {trades[i].symbol : i \in {j \in 1..Len(trades) : trades[j].pnl.num /= 0}} |->
        LET idx == {i \in 1..Len(trades) : trades[i].symbol = symbol /\ trades[i].pnl.num /= 0}
            won == {i \in idx : trades[i].pnl.num > 0}
            total_pnl == FracSum(PnlOf(trades, idx, 1))
        IN  [symbol |-> symbol, total_trades |-> Cardinality(idx),
             winning_trades |-> Cardinality(won),
             losing_trades |-> Cardinality(idx \ won),
             total_pnl |-> total_pnl,
             win_rate |-> WinRate(Cardinality(won), Cardinality(idx)),
             avg_pnl |-> Frac(total_pnl.num, total_pnl.den * Cardinality(idx))]]

\* analysis["symbol_stats"]: an entry for every symbol with a trade, with
\* its counts, the sum of its pnl, win_rate and avg_pnl.
SymbolStats(trades) ==
    [symbol \in {trades[i].symbol : i \in 1..Len(trades)} |->
        LET idx == {i \in 1..Len(trades) : trades[i].symbol = symbol}
            won == {i \in idx : trades[i].pnl.num > 0}
            total_pnl == FracSum(PnlOf(trades, idx, 1))
        IN  [symbol |-> symbol, total_trades |-> Cardinality(idx),
             winning_trades |-> Cardinality(won),
             losing_trades |-> Cardinality(idx \ won),
             total_pnl |-> total_pnl,
             win_rate |-> WinRate(Cardinality(won), Cardinality(idx)),
             avg_pnl |-> Frac(total_pnl.num, total_pnl.den * Cardinality(idx))]]

\* analyze_performance: the analyses it can return (one for each value the
\* Sharpe computation can return).  win_rate and profit_factor are set for an
\* empty log (0.0) and for a log with a trade, and are missing otherwise.
analyze_performance(records) ==
    LET trades == ScanTrades(ScanOrder(records, 1), 1, NoOpenPositions)
        won == {i \in 1..Len(trades) : trades[i].pnl.num > 0}
        lost == {i \in 1..Len(trades) : ~(trades[i].pnl.num > 0)}
        total_win_amount == FracSum(PnlOf(trades, won, 1))
        total_loss_amount == FracSum(PnlOf(trades, lost, 1))
    IN  { [total_trades |-> Len(trades),
           winning_trades |-> Cardinality(won),
           losing_trades |-> Cardinality(lost),
           win_rate |-> IF Len(records) = 0 THEN Some(Frac(0, 1))
                        ELSE IF Len(trades) > 0
                        THEN Some(WinRate(Cardinality(won), Len(trades)))
                        ELSE None,
           profit_factor |-> IF Len(records) = 0 THEN Some(Frac(0, 1))
                             ELSE IF Len(trades) > 0
                             THEN Some(ProfitFactor(total_win_amount, total_loss_amount))
                             ELSE None,
           recent_trades |-> RecentTrades(trades),
           symbol_stats |-> SymbolStats(trades),
           sharpe_ratio |-> sharpe_ratio] :
          sharpe_ratio \in _calculate_sharpe_ratio(records) }

\* ------------------------------------- calls of _calculate_sharpe_ratio
MaxSharpeLen == 4
SharpeBalances ==
    {None, Some(0), Some(9000), Some(10000), Some(10100), Some(11000), Some(12100), Some(13310)}
SharpeInputs ==
    { [i \in 1..Len(bs) |-> LogRecord(<< >>, bs[i])] : bs \in SeqsUpTo(SharpeBalances, MaxSharpeLen) }

SharpeInit ==
    /\ pc = "sharpe"
    /\ \E records \in SharpeInputs : call_args = Some([records |-> records])
    /\ call_result = None
    /\ Idle

SharpeStep ==
    /\ pc = "sharpe"
    /\ \E sharpe_ratio \in _calculate_sharpe_ratio(Val(call_args).records) :
          call_result' = Some(sharpe_ratio)
    /\ pc' = "sharpe_done"
    /\ UNCHANGED << trest, call_args, mvars >>

SpecSharpe == SharpeInit /\ [][SharpeStep]_vars

\* ------------------------------------- calls of analyze_performance
MaxLogRecords == 2
MaxOutcomes == 2

LogOutcomes ==
    { LogOutcome("AAPL", "open_long", 100, 2, 5, TRUE),
      LogOutcome("AAPL", "open_long", 110, 3, 2, TRUE),
      LogOutcome("AAPL", "open_long", 0, 0, 5, FALSE),
      LogOutcome("AAPL", "open_short", 100, 2, 5, TRUE),
      LogOutcome("TSLA", "open_long", 100, 1, 1, TRUE),
      LogOutcome("AAPL", "close_long", 110, 0, 0, TRUE),
      LogOutcome("AAPL", "close_long", 90, 0, 0, TRUE),
      LogOutcome("AAPL", "close_short", 90, 0, 0, TRUE),
      LogOutcome("TSLA", "close_long", 100, 0, 0, TRUE),
      LogOutcome("AAPL", "hold", 0, 0, 0, TRUE),
      LogOutcome("", "open_long", 100, 1, 1, TRUE) }

LogBalances == {None, Some(10000)}
LogRecords ==
    { LogRecord(outcomes, total_balance) :
        outcomes \in SeqsUpTo(LogOutcomes, MaxOutcomes), total_balance \in LogBalances }

AnalyzeInit ==
    /\ pc = "analyze"
    /\ \E records \in SeqsUpTo(LogRecords, MaxLogRecords) :
          call_args = Some([records |-> records])
    /\ call_result = None
    /\ Idle

AnalyzeStep ==
    /\ pc = "analyze"
    /\ \E analysis \in analyze_performance(Val(call_args).records) :
          call_result' = Some(analysis)
    /\ pc' = "analyzed"
    /\ UNCHANGED << trest, call_args, mvars >>

SpecAnalyze == AnalyzeInit /\ [][AnalyzeStep]_vars

\* Calls of analyze_performance on the log of a trader that closes and
\* reopens one position in every cycle: each record holds the close of the
\* position of the record before it and a new open.
MaxRecentRecords == 12
ReopenRecords ==
    { LogRecord(<< LogOutcome("AAPL", "close_long", close_price, 0, 0, TRUE),
                   LogOutcome("AAPL", "open_long", 100, 2, 5, TRUE) >>, None) :
        close_price \in {90, 110} }

RecentInit ==
    /\ pc = "analyze"
    /\ \E records \in SeqsUpTo(ReopenRecords, MaxRecentRecords) :
          call_args = Some([records |-> records])
    /\ call_result = None
    /\ Idle

SpecRecent == RecentInit /\ [][AnalyzeStep]_vars

\* ---------------------------- logger/decision_logger.py: log, read_recent
\* The characters of the strings a record carries: a letter, a digit, a
\* double quote, the line feed and the line separator U+2028.
LF == "\n"
LS == "u2028"
Backslash == "\\"
TextChars == {"a", "7", DQ, LF, LS}

\* json.dumps(..., ensure_ascii=False) of one character of a string: the
\* control characters and the quote are escaped, every other character is
\* written as it is.
Escaped(c) ==
    IF c = LF THEN << Backslash, "n" >>
    ELSE IF c = DQ THEN << Backslash, DQ >>
    ELSE << c >>

RECURSIVE EscapedText(_)
EscapedText(text) ==
    IF text = << >> THEN << >> ELSE Escaped(text[1]) \o EscapedText(Tail(text))

\* json.dumps of a record with one string field; "{" and "}" stand for the
\* text around the string.
json_dumps(decision) == << "{", DQ >> \o EscapedText(decision.error_message) \o << DQ, "}" >>

\* The text of the file: every line written, followed by "\n".
RECURSIVE FileText(_)
FileText(lines) ==
    IF lines = << >> THEN << >> ELSE lines[1] \o << LF >> \o FileText(Tail(lines))

\* str.splitlines: the text is cut at every line boundary, of which "\n" and
\* U+2028 are two.
RECURSIVE splitlines(_, _)
splitlines(text, line) ==
    IF text = << >> THEN (IF line = << >> THEN << >> ELSE << line >>)
    ELSE IF text[1] \in {LF, LS} THEN << line >> \o splitlines(Tail(text), << >>)
    ELSE splitlines(Tail(text), Append(line, text[1]))

\* The characters of an escaped text; None when it is no JSON string body.
RECURSIVE Unescaped(_)
Unescaped(text) ==
    IF text = << >> THEN Some(<< >>)
    ELSE IF text[1] = Backslash
    THEN IF Len(text) < 2 \/ text[2] \notin {"n", DQ} THEN None
         ELSE LET rest == Unescaped(SubSeq(text, 3, Len(text)))
              IN  IF rest = None THEN None
                  ELSE Some(<< (IF text[2] = "n" THEN LF ELSE text[2]) >> \o Val(rest))
    ELSE IF text[1] \in {DQ, LF, "{", "}"} THEN None
    ELSE LET rest == Unescaped(Tail(text))
         IN  IF rest = None THEN None ELSE Some(<< text[1] >> \o Val(rest))

\* json.loads of one line: the record, a number when the line is made of
\* digits, None when it raises.
json_loads_line(line) ==
    IF /\ Len(line) >= 4
       /\ line[1] = "{" /\ line[2] = DQ
       /\ line[Len(line) - 1] = DQ /\ line[Len(line)] = "}"
       /\ Unescaped(SubSeq(line, 3, Len(line) - 2)) /= None
    THEN Some([error_message |-> Val(Unescaped(SubSeq(line, 3, Len(line) - 2)))])
    ELSE IF line /= << >> /\ \A i \in 1..Len(line) : line[i] = "7"
    THEN Some([number |-> line])
    ELSE None

\* The loop of read_recent: the lines json.loads accepts, in order.
RECURSIVE LoadedLines(_)
LoadedLines(lines) ==
    IF lines = << >> THEN << >>
    ELSE (IF json_loads_line(lines[1]) = None THEN << >>
          ELSE << Val(json_loads_line(lines[1])) >>) \o LoadedLines(Tail(lines))

\* lines[-limit:]: the last limit lines, and every line when limit is 0
\* (the slice [-0:] starts at the first element).
LastLines(lines, limit) == IF limit = 0 THEN lines ELSE LastOf(lines, limit)

\* read_recent(trader_id, limit); no line written: the file does not exist.
read_recent(lines, limit) ==
    IF lines = << >> THEN << >>
    ELSE LoadedLines(LastLines(splitlines(FileText(lines), << >>), limit))

MaxTextLen == 2
MaxLogCalls == 2
MaxLimit == 3
LoggedRecords == { [error_message |-> text] : text \in SeqsUpTo(TextChars, MaxTextLen) }

\* The trader fields the logger leaves alone.
lrest == << is_running, call_count, stop_until, last_reset_time,
            position_first_seen_time, decisions, sorted_decisions, exec_idx, record,
            raised, balance, positions, orders, now, ai_calls, ai_response >>

\* The log file is new; call_args holds the arguments of the last call of
\* log, call_result what the last read_recent after it returned.
LogInit ==
    /\ pc = "logger"
    /\ NoCall
    /\ Idle

\* DecisionLogger.log
LogCall ==
    /\ pc = "logger"
    /\ Len(log) < MaxLogCalls
    /\ \E decision \in LoggedRecords :
          /\ log' = LogAppend(log, json_dumps(decision))
          /\ call_args' = Some([decision |-> decision])
    /\ call_result' = None
    /\ UNCHANGED << pc, lrest, mvars >>

\* DecisionLogger.read_recent
ReadRecent ==
    /\ pc = "logger"
    /\ \E limit \in 0..MaxLimit :
          call_result' = Some([limit |-> limit, out |-> read_recent(log, limit)])
    /\ UNCHANGED << pc, trest, call_args, mvars >>

SpecLog == LogInit /\ [][LogCall \/ ReadRecent]_vars

\* ================================================================ claims
Rank(d) == IF IsClose(d) THEN 1 ELSE IF IsOpen(d) THEN 2 ELSE 3

AllRecognized(ds) == \A i \in 1..Len(ds) : ds[i].action \in ValidActions

\* C1: for a list of decisions with recognized actions the scheduler returns
\* a permutation of it in which every close precedes every open, every open
\* precedes every hold/wait, and each group keeps its input order.
C1_SortPartitionsStably ==
    (pc = "sorted" /\ AllRecognized(decisions)) =>
        /\ Len(sorted_decisions) = Len(decisions)
        /\ \A i \in 1..Len(decisions) : \E j \in 1..Len(sorted_decisions) :
                sorted_decisions[j] = decisions[i]
        /\ \A i, j \in 1..Len(sorted_decisions) :
                i < j => /\ Rank(sorted_decisions[i]) <= Rank(sorted_decisions[j])
                         /\ Rank(sorted_decisions[i]) = Rank(sorted_decisions[j])
                                => sorted_decisions[i].reasoning < sorted_decisions[j].reasoning

\* A sorted list of recognized actions that had a hold before an open before
\* a close, and two closes.
C1_Witness ==
    /\ pc = "sorted"
    /\ AllRecognized(decisions)
    /\ Len(decisions) = MaxSortLen
    /\ \E i, j, k \in 1..Len(decisions) :
        /\ i < j /\ j < k
        /\ IsHold(decisions[i]) /\ IsOpen(decisions[j]) /\ IsClose(decisions[k])
    /\ IsClose(sorted_decisions[1]) /\ IsClose(sorted_decisions[2])

\* The decision the execution loop works on, and its outcome once recorded.
CurrentDecision == sorted_decisions[exec_idx + 1]
Outcomes(rec) == IF IsSome(rec.decisions) THEN Val(rec.decisions) ELSE << >>
SideOf(d) == IF d.action \in {"open_long", "close_long"} THEN "long" ELSE "short"
OrderPlaced(o) == IsSome(o.order_id) /\ Val(o.order_id) > 0
ExecutionStep == pc = "exec" /\ exec_idx < Len(sorted_decisions) /\ exec_idx' = exec_idx + 1

\* C2: executing an open_long (open_short) for a symbol whose long (short)
\* position the broker reports is rejected: the outcome has success = false
\* and an error, no order is added and the position keeps its quantity.
C2_DuplicateOpenRejected ==
    [][ (/\ ExecutionStep
         /\ IsOpen(CurrentDecision)
         /\ positions[<< CurrentDecision.symbol, SideOf(CurrentDecision) >>] > 0)
        => (/\ Len(Outcomes(record')) = exec_idx + 1
            /\ ~Outcomes(record')[exec_idx + 1].success
            /\ Outcomes(record')[exec_idx + 1].error /= ""
            /\ orders' = orders
            /\ positions' = positions) ]_vars

\* An open of a position that was held when the cycle began was executed and
\* refused.
C2_Witness ==
    /\ pc = "exec"
    /\ exec_idx > 0
    /\ IsSome(record.account_state)
    /\ Val(record.account_state).position_count > 0
    /\ Outcomes(record)[exec_idx].error = "position_already_open"
    /\ positions[<< sorted_decisions[exec_idx].symbol, SideOf(sorted_decisions[exec_idx]) >>] > 0

\* C3: in a cycle that reaches the execution step every parsed decision,
\* whatever its action, has exactly one outcome in the cycle's record.
C3_OneOutcomePerDecision ==
    (pc = "after" /\ IsSome(record.decisions)) =>
        Len(Outcomes(record)) = Len(decisions)

\* C4: a decision that fails is recorded with success = false and an error,
\* and every later scheduled decision is still executed and recorded, in
\* scheduled order; the written record holds all of them.
C4_FailureDoesNotStopExecution ==
    IsSome(record.decisions) =>
        /\ Len(Outcomes(record)) = exec_idx
        /\ exec_idx <= Len(sorted_decisions)
        /\ \A i \in 1..Len(Outcomes(record)) :
            /\ Outcomes(record)[i].action = sorted_decisions[i].action
            /\ Outcomes(record)[i].symbol = sorted_decisions[i].symbol
            /\ ~Outcomes(record)[i].success => Outcomes(record)[i].error /= ""
        /\ pc = "after" =>
            /\ Len(Outcomes(record)) = Len(sorted_decisions)
            /\ log[Len(log)].decisions = record.decisions

\* A written record whose first outcome failed and whose second succeeded
\* with an order.
C4_Witness ==
    /\ pc = "after"
    /\ Len(Outcomes(record)) = 2
    /\ ~Outcomes(record)[1].success
    /\ Outcomes(record)[2].success
    /\ OrderPlaced(Outcomes(record)[2])
    /\ log[Len(log)] = record

Invalid(d) == validate_decision(d, InitialBalance, BtcEthLeverage, AltcoinLeverage) /= "ok"

\* C5: a decision that fails validate_decision is never executed silently:
\* either no order is sent for it or its outcome is marked failed.
C5_InvalidNeverExecutedSilently ==
    \A i \in 1..Len(Outcomes(record)) :
        Invalid(sorted_decisions[i]) =>
            \/ ~OrderPlaced(Outcomes(record)[i])
            \/ /\ ~Outcomes(record)[i].success
               /\ Outcomes(record)[i].error /= ""

\* A step that starts a cycle.
CycleStartStep == pc = "cycle" /\ call_count' = call_count + 1

\* C6: a cycle that starts while stop_until is set and in the future places
\* no order, builds no context, calls no AI, leaves the positions and
\* position_first_seen_time alone and appends one record with success = false
\* whose error_message carries the remaining cooldown.
C6_CooldownSkipsCycle ==
    [][ (/\ CycleStartStep
         /\ IsSome(stop_until)
         /\ now < Val(stop_until))
        => (/\ pc' = "after"
            /\ Len(log') = Len(log) + 1
            /\ SubSeq(log', 1, Len(log)) = log
            /\ ~log'[Len(log')].success
            /\ log'[Len(log')].error_message = Some(<< "cooldown", Val(stop_until) - now >>)
            /\ log'[Len(log')].account_state = None
            /\ log'[Len(log')].decisions = None
            /\ ai_calls' = ai_calls
            /\ orders' = orders
            /\ positions' = positions
            /\ position_first_seen_time' = position_first_seen_time) ]_vars

\* A cycle was skipped by the cooldown while the broker held a position.
C6_Witness ==
    /\ pc = "after"
    /\ IsSome(record.error_message)
    /\ Val(record.error_message)[1] = "cooldown"
    /\ Val(record.error_message)[2] = 1
    /\ log[Len(log)] = record
    /\ \E k \in PosKeys : positions[k] > 0 /\ IsSome(position_first_seen_time[k])

\* C7: a cycle whose context building fails appends one record with
\* success = false and an error_message, calls no AI and places no order; it
\* changes nothing the next cycle depends on, and the loop goes on to it.
C7_ContextFailureAbortsCycle ==
    [][ (/\ CycleStartStep
         /\ ~(IsSome(stop_until) /\ now < Val(stop_until))
         /\ pc' /= "ai")
        => (/\ pc' = "after"
            /\ Len(log') = Len(log) + 1
            /\ SubSeq(log', 1, Len(log)) = log
            /\ ~log'[Len(log')].success
            /\ IsSome(log'[Len(log')].error_message)
            /\ Val(log'[Len(log')].error_message)[1] = "context"
            /\ log'[Len(log')].decisions = None
            /\ ~raised'
            /\ ai_calls' = ai_calls
            /\ orders' = orders
            /\ positions' = positions
            /\ balance' = balance
            /\ position_first_seen_time' = position_first_seen_time
            /\ stop_until' = stop_until
            /\ is_running' = is_running) ]_vars

\* The first cycle failed at the context, the second one executed an order.
C7_Witness ==
    /\ pc = "after"
    /\ Len(log) = 2
    /\ ~log[1].success
    /\ Val(log[1].error_message)[1] = "context"
    /\ log[2].success
    /\ \E i \in 1..Len(Outcomes(log[2])) : OrderPlaced(Outcomes(log[2])[i])

\* C8: as long as the trader is not stopped, after every cycle, whether it
\* succeeded, failed or raised, another cycle starts; the same for every
\* task of the manager (up to the bound on the number of cycles).
C8_LoopSurvivesFailures ==
    /\ [](  (pc = "after" /\ is_running /\ call_count < MaxCycles)
            => <>(pc = "cycle" \/ ~is_running))
    /\ \A t \in MTraders :
        [](  (m_pc[t] = "sleep" /\ m_is_running /\ m_cycles[t] < MaxMgrCycles)
            => <>(m_pc[t] = "fetch" \/ ~m_is_running))

\* The second cycle starts after a first cycle that raised.
C8_Witness ==
    /\ pc = "cycle"
    /\ call_count = 1
    /\ Len(log) = 0
    /\ is_running

\* C9: a stop takes effect between cycles only: no cycle starts after the
\* stop, and a cycle that has started runs to its end, every symbol of it
\* processed and recorded.
C9_StopOnlyBetweenCycles ==
    /\ pc = "cycle" => is_running
    /\ pc = "done" => exec_idx >= Len(sorted_decisions)
    /\ \A t \in MTraders :
        m_pc[t] \in {"sleep", "cancelled", "finished"}
            => Len(m_log[t]) = m_cycles[t] * Len(MStocks)

\* C10: every cycle appends exactly one record and no written record is
\* changed or removed: after n cycles the log holds n records.
C10_OneRecordPerCycle ==
    [][ /\ Len(log') >= Len(log)
        /\ SubSeq(log', 1, Len(log)) = log
        /\ (pc /= "after" /\ pc' = "after") => Len(log') = call_count' ]_vars

\* C11: when the AI response cannot be parsed into decisions, the record the
\* cycle writes shows it: success = false or an error_message.
C11_ParseFailureRecorded ==
    (pc = "after" /\ IsSome(ai_response) /\ ~Val(ai_response).array) =>
        /\ Len(log) = call_count
        /\ ~log[Len(log)].success \/ IsSome(log[Len(log)].error_message)


\* C12: a well-formed decision array inside any surrounding text is extracted
\* exactly, from its opening bracket to its matching bracket.
C12_ExactArrayExtracted ==
    (pc = "parsed" /\ Val(call_args).array \in WellFormedArrays) =>
        /\ Val(call_result).extracted.error = "none"
        /\ Val(call_result).extracted.content = Val(call_args).array

\* C13: the trace is the trimmed text before the first "[" (empty when the
\* text starts with it); with no "[" it is the whole trimmed text and there
\* are no decisions.
C13_TraceBeforeFirstBracket ==
    pc = "parsed" =>
        LET response == Val(call_args).response
            first == Find(response, "[")
        IN  IF first = 0
            THEN /\ Val(call_result).full.cot_trace = Strip(response)
                 /\ Val(call_result).full.decisions = << >>
            ELSE Val(call_result).full.cot_trace = Strip(SubSeq(response, 1, first - 1))

\* The response has no "[", an unclosed "[", or no JSON between its brackets.
C14_Unparsable ==
    /\ Find(Val(call_args).prefix, "[") = 0
    /\ Val(call_args).array \in NoArrays \cup UnbalancedArrays \cup InvalidJsonArrays

\* C14: on such a response extract_decisions raises, and
\* parse_full_decision_response raises nothing and returns no decisions.
C14_ParseFailureRecoverable ==
    (pc = "parsed" /\ C14_Unparsable) =>
        /\ Val(call_result).extracted.error /= "none"
        /\ Val(call_result).full.raised = "none"
        /\ Val(call_result).full.decisions = << >>

C14_Witness ==
    /\ pc = "parsed"
    /\ C14_Unparsable
    /\ Val(call_args).array \in InvalidJsonArrays
    /\ Val(call_result).extracted.error = "ValueError"
    /\ Val(call_result).full.decisions = << >>

\* validate_decision has returned or raised for an open decision.
OpenValidated ==
    pc = "validated" /\ Val(call_args).decision.action \in {"open_long", "open_short"}

\* The leverage is in (0, cap].
LeverageInRange ==
    LET a == Val(call_args)
        cap == IF a.decision.symbol \in LargeCaps THEN a.btc_eth_leverage
               ELSE a.altcoin_leverage
    IN  0 < Val(a.decision.leverage) /\ Val(a.decision.leverage) <= cap

\* The size is in (0, ceiling x 1.01], the ceiling being large_factor x equity
\* for a large cap and 1.5 x equity otherwise.
SizeWithin(large_factor) ==
    LET a == Val(call_args)
        ceiling2 == IF a.decision.symbol \in LargeCaps
                    THEN 2 * large_factor * a.account_equity
                    ELSE 3 * a.account_equity
    IN  /\ 0 < Val(a.decision.position_size_usd)
        /\ 200 * Val(a.decision.position_size_usd) <= 101 * ceiling2

\* Both prices are positive and in the order of the side.
StopsOrdered ==
    LET d == Val(call_args).decision
    IN  /\ Val(d.stop_loss) > 0
        /\ Val(d.take_profit) > 0
        /\ d.action = "open_long" => Val(d.stop_loss) < Val(d.take_profit)
        /\ d.action = "open_short" => Val(d.stop_loss) > Val(d.take_profit)

\* reward% / risk% >= 3 at the entry price one fifth of the way from
\* stop_loss to take_profit (all three quantities times 5).
RatioAtLeastThree ==
    LET d == Val(call_args).decision
        sl5 == 5 * Val(d.stop_loss)
        tp5 == 5 * Val(d.take_profit)
        entry5 == sl5 + (Val(d.take_profit) - Val(d.stop_loss))
        risk5 == IF d.action = "open_long" THEN entry5 - sl5 ELSE sl5 - entry5
        reward5 == IF d.action = "open_long" THEN tp5 - entry5 ELSE entry5 - tp5
    IN  reward5 >= 3 * risk5

SizeRule(large_factor) ==
    OpenValidated =>
        /\ ~SizeWithin(large_factor) => Val(call_result) = "ValueError"
        /\ (SizeWithin(large_factor) /\ LeverageInRange /\ StopsOrdered)
              => Val(call_result) = "ok"

\* C16 as stated: the ceiling is 15 x equity for a large cap, 1.5 x equity
\* otherwise.
C16_CeilingFifteenTimes == SizeRule(15)

\* C16: the ceiling is 10 x equity for a large cap, 1.5 x equity otherwise; a
\* size in (0, ceiling x 1.01] passes the size check, any other is rejected.
C16_CeilingTenTimes == SizeRule(10)

C16_Witness ==
    /\ OpenValidated /\ LeverageInRange /\ StopsOrdered
    /\ Val(call_args).decision.symbol \in LargeCaps
    /\ SizeWithin(15) /\ ~SizeWithin(10)
    /\ Val(call_result) = "ValueError"

\* C17: the leverage of an open decision is accepted exactly when it is in
\* (0, cap], cap being btc_eth_leverage for a large cap and altcoin_leverage
\* otherwise.
C17_LeverageWithinCap ==
    OpenValidated =>
        /\ ~LeverageInRange => Val(call_result) = "ValueError"
        /\ (LeverageInRange /\ SizeWithin(10) /\ StopsOrdered) => Val(call_result) = "ok"

C17_Witness ==
    /\ OpenValidated /\ SizeWithin(10) /\ StopsOrdered
    /\ Val(call_args).decision.symbol \in LargeCaps
    /\ Val(call_args).decision.leverage = Some(Val(call_args).btc_eth_leverage)
    /\ Val(call_args).btc_eth_leverage > Val(call_args).altcoin_leverage
    /\ Val(call_result) = "ok"

\* C18: an open decision is rejected unless both prices are positive and
\* strictly ordered for its side; close, hold and wait pass whatever their
\* numbers; an action outside the six is rejected.
C18_StopsAndActions ==
    pc = "validated" =>
        LET d == Val(call_args).decision
        IN  /\ (OpenValidated /\ ~StopsOrdered) => Val(call_result) = "ValueError"
            /\ (OpenValidated /\ StopsOrdered /\ LeverageInRange /\ SizeWithin(10))
                  => Val(call_result) = "ok"
            /\ d.action \in {"close_long", "close_short", "hold", "wait"}
                  => Val(call_result) = "ok"
            /\ d.action \notin ValidActions => Val(call_result) = "ValueError"

C18_Witness ==
    /\ OpenValidated /\ LeverageInRange /\ SizeWithin(10)
    /\ Val(Val(call_args).decision.stop_loss) > 0
    /\ Val(call_args).decision.stop_loss = Val(call_args).decision.take_profit
    /\ Val(call_result) = "ValueError"

\* C20: whenever the equity sequence yields fewer than 2 period returns the
\* Sharpe ratio is 0; the readings [10000, 11000] yield 0.
C20_FewerThanTwoReturnsIsZero ==
    (pc = "sharpe_done" /\ Len(Equities(Val(call_args).records)) - 1 < 2) =>
        Val(call_result) = SharpeZero

\* The open and close outcomes of the log, in scan order.
C19_Positions ==
    LET actions == ScanOrder(Val(call_args).records, 1)
        Trading(a) == /\ a.outcome.symbol /= ""
                      /\ a.outcome.action \in {"open_long", "open_short",
                                               "close_long", "close_short"}
    IN  SelectSeq(actions, Trading)

\* The log holds one open, at a positive price, and one later close of the
\* same symbol and side.
C19_OneOpenOneClose ==
    LET open == C19_Positions[1].outcome
        close == C19_Positions[2].outcome
    IN  /\ Len(C19_Positions) = 2
        /\ open.symbol = close.symbol
        /\ \/ open.action = "open_long" /\ close.action = "close_long"
           \/ open.action = "open_short" /\ close.action = "close_short"
        /\ open.price > 0

\* C19: for one open and one later matching close the analysis reports one
\* trade with pnl_pct = (close - open) / open x 100 (sign flipped for a
\* short) and pnl = quantity x open_price x (pnl_pct / 100) x leverage, with
\* the quantity and leverage of the open.
C19_PnlOfOnePair ==
    (pc = "analyzed" /\ C19_OneOpenOneClose) =>
        LET open == C19_Positions[1].outcome
            close == C19_Positions[2].outcome
            move == IF open.action = "open_long" THEN close.price - open.price
                    ELSE open.price - close.price
            trades == Val(call_result).recent_trades
        IN  /\ Val(call_result).total_trades = 1
            /\ Len(trades) = 1
            /\ trades[1].pnl_pct.num * open.price = move * 100 * trades[1].pnl_pct.den
            /\ trades[1].pnl.num = open.quantity * move * open.leverage * trades[1].pnl.den

C19_Witness ==
    /\ pc = "analyzed"
    /\ C19_OneOpenOneClose
    /\ C19_Positions[1].outcome.action = "open_short"
    /\ C19_Positions[1].timestamp < C19_Positions[2].timestamp
    /\ Val(call_result).recent_trades[1].pnl = Frac(100, 1)

\* The state of the manager that belongs to trader t alone.
OwnState(t) == << m_pc[t], m_idx[t], m_cycles[t], m_log[t], m_positions[t], m_orders[t] >>

\* C25: a step of one trader's loop changes nothing that another trader's
\* loop or the status query reads or writes: neither the state of the other
\* traders nor the counter that status reports.
C25_TradersShareNothing ==
    [][\A t \in MTraders :
          MgrTaskStep(t) =>
              /\ m_call_count' = m_call_count
              /\ \A u \in MTraders \ {t} : OwnState(u)' = OwnState(u)]_vars

\* C26: the record a cycle writes has success = false when the cycle was
\* skipped by the cooldown, failed at the context or failed at the AI
\* decision, and success = true when it went through the execution of its
\* decisions, however many of them failed.
C26_RecordFlag ==
    [][log' /= log =>
          /\ CycleCooldown \/ CycleContextFails \/ AIDecisionFails \/ CycleFinish
          /\ (CycleCooldown \/ CycleContextFails \/ AIDecisionFails)
                => ~log'[Len(log')].success
          /\ CycleFinish => log'[Len(log')].success]_vars

C26_Witness ==
    /\ pc = "after"
    /\ log /= << >>
    /\ log[Len(log)].success
    /\ IsSome(log[Len(log)].decisions)
    /\ Len(Val(log[Len(log)].decisions)) = 2
    /\ \A i \in 1..2 : ~Val(log[Len(log)].decisions)[i].success

\* The arguments and the result of the finished call of _calculate_sharpe_ratio.
SharpeRecords == Val(call_args).records
SharpeResult == Val(call_result)
SharpeBalancesAre(balances) ==
    /\ Len(SharpeRecords) = Len(balances)
    /\ \A i \in 1..Len(balances) : SharpeRecords[i].total_balance = Some(balances[i])

\* C21: when all period returns are equal, _calculate_sharpe_ratio returns
\* exactly the sentinel 999 for a positive mean, 0 for a zero mean and -999
\* for a negative mean; the quotient mean/std_dev is returned only when the
\* returns differ.
C21_EqualReturnsGiveSentinel ==
    pc = "sharpe_done" =>
        LET returns == PeriodReturns(Equities(SharpeRecords))
            mean_sign == Sign(FracSum(returns).num)
        IN  (/\ Len(returns) >= 1
             /\ \A i \in 1..Len(returns) : FracEq(returns[i], returns[1]))
            => SharpeResult = IF mean_sign = 0 THEN SharpeZero ELSE SharpeSentinel(mean_sign)

\* C22 as stated: for the equities 10000, 10100, 10100 the sentinel 999 is
\* returned.
C22_SentinelReturned ==
    (pc = "sharpe_done" /\ SharpeBalancesAre(<< 10000, 10100, 10100 >>))
        => SharpeResult = SharpeSentinel(1)

\* C22: for the equities 10000, 10100, 10100 the returns 1/100 and 0 differ,
\* and _calculate_sharpe_ratio returns the quotient mean/std_dev, which is
\* positive, and not the sentinel.
C22_QuotientReturned ==
    (pc = "sharpe_done" /\ SharpeBalancesAre(<< 10000, 10100, 10100 >>))
        => /\ PeriodReturns(Equities(SharpeRecords)) = << Frac(1, 100), Frac(0, 1) >>
           /\ SharpeResult = SharpeQuotient(1)

C22_Witness ==
    /\ pc = "sharpe_done"
    /\ SharpeBalancesAre(<< 10000, 10100, 10100 >>)
    /\ SharpeResult.kind = "quotient"

\* The records with a positive balance.
RECURSIVE Retained(_)
Retained(records) ==
    IF records = << >> THEN << >>
    ELSE (IF IsSome(records[1].total_balance) /\ Val(records[1].total_balance) > 0
          THEN << records[1] >> ELSE << >>) \o Retained(Tail(records))

\* C30: the Sharpe ratio of a log is a Sharpe ratio of the log without its
\* records of missing or non-positive balance, and its returns are those
\* between consecutive retained balances.
C30_DegradedRecordsIgnored ==
    pc = "sharpe_done" =>
        LET retained == Retained(SharpeRecords)
            returns == [i \in 1..(Len(retained) - 1) |->
                           Frac(Val(retained[i + 1].total_balance) - Val(retained[i].total_balance),
                                Val(retained[i].total_balance))]
        IN  /\ SharpeResult \in _calculate_sharpe_ratio(retained)
            /\ Len(retained) < 2 => SharpeResult = SharpeZero
            /\ Len(retained) >= 2 =>
                  /\ SharpeResult.sign = Sign(FracSum(returns).num)
                  /\ (SharpeResult.kind = "quotient") =>
                        ~(Len(returns) <= 2
                          /\ \A i \in 1..Len(returns) : FracEq(returns[i], returns[1]))
                  /\ (SharpeResult.kind = "sentinel") =>
                        \A i \in 1..Len(returns) : FracEq(returns[i], returns[1])

C30_Witness ==
    /\ pc = "sharpe_done"
    /\ Len(SharpeRecords) = 4
    /\ SharpeRecords[1].total_balance = Some(10000)
    /\ SharpeRecords[2].total_balance = None
    /\ SharpeRecords[3].total_balance = Some(0)
    /\ SharpeRecords[4].total_balance = Some(11000)
    /\ SharpeResult = SharpeSentinel(1)

\* The outcomes recorded so far in the running cycle; outcome i belongs to
\* sorted_decisions[i].
CycleOutcomes == IF IsSome(record.decisions) THEN Val(record.decisions) ELSE << >>

AnalyzedActions == ScanOrder(Val(call_args).records, 1)
Analysis == Val(call_result)

OpensAt(i) ==
    /\ AnalyzedActions[i].outcome.symbol /= ""
    /\ AnalyzedActions[i].outcome.action \in {"open_long", "open_short"}
ClosesAt(i) ==
    /\ AnalyzedActions[i].outcome.symbol /= ""
    /\ AnalyzedActions[i].outcome.action \in {"close_long", "close_short"}
SideAt(i) ==
    IF AnalyzedActions[i].outcome.action \in {"open_long", "close_long"} THEN "long" ELSE "short"
SameKey(i, j) ==
    /\ AnalyzedActions[i].outcome.symbol = AnalyzedActions[j].outcome.symbol
    /\ SideAt(i) = SideAt(j)

\* The open that the close at position j consumes: the last open of its
\* symbol and side before j, unless a close of that symbol and side lies
\* between the two; 0 when there is none.
PendingOpen(j) ==
    LET opens == {i \in 1..(j - 1) : OpensAt(i) /\ SameKey(i, j)}
        last == CHOOSE i \in opens : \A k \in opens : k <= i
    IN  IF opens = {} THEN 0
        ELSE IF \E k \in (last + 1)..(j - 1) : ClosesAt(k) /\ SameKey(k, j) THEN 0
        ELSE last

PairedCloses == {j \in 1..Len(AnalyzedActions) : ClosesAt(j) /\ PendingOpen(j) /= 0}

\* The n-th paired close in scan order.
PairedClose(n) ==
    CHOOSE j \in PairedCloses : Cardinality({k \in PairedCloses : k < j}) = n - 1

\* C27: the trades of the analysis are, in scan order, the closes that have
\* a pending open of their symbol and side, each with the price and time of
\* that open: a close after an open that was already consumed, or without
\* any earlier open, yields no trade, and no open yields two trades.
C27_ClosePairsWithPendingOpen ==
    pc = "analyzed" =>
        LET trades == Reverse(Analysis.recent_trades)
        IN  /\ Analysis.total_trades = Cardinality(PairedCloses)
            /\ Len(trades) = Cardinality(PairedCloses)
            /\ \A n \in 1..Len(trades) :
                  LET close == AnalyzedActions[PairedClose(n)]
                      open == AnalyzedActions[PendingOpen(PairedClose(n))]
                  IN  /\ trades[n].symbol = close.outcome.symbol
                      /\ trades[n].side = SideAt(PairedClose(n))
                      /\ trades[n].close_price = close.outcome.price
                      /\ trades[n].close_time = close.timestamp
                      /\ trades[n].open_price = open.outcome.price
                      /\ trades[n].open_time = open.timestamp
            /\ \A j, k \in PairedCloses : PendingOpen(j) = PendingOpen(k) => j = k

\* Two opens, the close that takes the second, and a close that finds none.
C27_Witness ==
    /\ pc = "analyzed"
    /\ Len(AnalyzedActions) = 4
    /\ OpensAt(1) /\ OpensAt(2) /\ ClosesAt(3) /\ ClosesAt(4)
    /\ SameKey(1, 2) /\ SameKey(2, 3) /\ SameKey(3, 4)
    /\ AnalyzedActions[1].outcome.price /= AnalyzedActions[2].outcome.price
    /\ Analysis.total_trades = 1
    /\ Analysis.recent_trades[1].open_price = AnalyzedActions[2].outcome.price

\* C28: for a log with at least one trade, win_rate is winning_trades /
\* total_trades x 100 and profit_factor is the sum of the pnl > 0 over the
\* absolute value of the sum of the other pnl, and 0 when that sum is 0.
C28_WinRateAndProfitFactor ==
    (pc = "analyzed" /\ Analysis.total_trades >= 1) =>
        LET trades == Analysis.recent_trades
            wins == {i \in 1..Len(trades) : trades[i].pnl.num > 0}
            losses == (1..Len(trades)) \ wins
            win_sum == FracSum([i \in 1..Len(trades) |->
                                   IF i \in wins THEN trades[i].pnl ELSE Frac(0, 1)])
            loss_sum == FracSum([i \in 1..Len(trades) |->
                                    IF i \in losses THEN trades[i].pnl ELSE Frac(0, 1)])
            win_rate == Val(Analysis.win_rate)
            profit_factor == Val(Analysis.profit_factor)
        IN  /\ Len(trades) = Analysis.total_trades
            /\ Analysis.winning_trades = Cardinality(wins)
            /\ IsSome(Analysis.win_rate) /\ IsSome(Analysis.profit_factor)
            /\ win_rate.num * Analysis.total_trades = Analysis.winning_trades * 100 * win_rate.den
            /\ loss_sum.num = 0 => profit_factor.num = 0
            /\ loss_sum.num /= 0 =>
                  profit_factor.num * Abs(loss_sum.num) * win_sum.den
                      = win_sum.num * loss_sum.den * profit_factor.den

\* One winning and one losing trade: win_rate 50, profit_factor 100 / 100.
C28_Witness ==
    /\ pc = "analyzed"
    /\ Analysis.total_trades = 2
    /\ Analysis.winning_trades = 1
    /\ Analysis.win_rate = Some(Frac(50, 1))
    /\ Analysis.profit_factor = Some(Frac(1, 1))

\* C29: recent_trades holds the last min(10, n) of the n trades of the scan,
\* newest first: it is never longer than 10 and each element closed no
\* earlier than the one after it.
C29_LastTenNewestFirst ==
    pc = "analyzed" =>
        LET recent == Analysis.recent_trades
            trades == ScanTrades(ScanOrder(Val(call_args).records, 1), 1, NoOpenPositions)
            n == Len(trades)
            kept == IF n > 10 THEN 10 ELSE n
        IN  /\ Analysis.total_trades = n
            /\ Len(recent) = kept
            /\ Len(recent) <= 10
            /\ \A i \in 1..kept : recent[i] = trades[n + 1 - i]
            /\ \A i \in 1..(kept - 1) : recent[i].close_time >= recent[i + 1].close_time

\* Eleven trades, closed by the records 2 to 12: the ten kept are those of
\* the records 12 down to 3.
C29_Witness ==
    /\ pc = "analyzed"
    /\ Analysis.total_trades = 11
    /\ Len(Analysis.recent_trades) = 10
    /\ Analysis.recent_trades[1].close_time = 12
    /\ Analysis.recent_trades[10].close_time = 3

\* C23: a read_recent that follows a call of log returns, as its last
\* element, a record equal to the one that was logged, whatever the
\* characters of its strings.
C23_LastReadIsLastLogged ==
    (pc = "logger" /\ call_args /= None /\ call_result /= None) =>
        /\ Val(call_result).out /= << >>
        /\ Val(call_result).out[Len(Val(call_result).out)] = Val(call_args).decision

\* The decision the execution loop is about to execute, and the key of the
\* position it is about.
NextDecision == sorted_decisions[exec_idx + 1]
KeyOf(d) == << d.symbol, IF d.action \in {"open_long", "close_long"} THEN "long" ELSE "short" >>

\* C31: the execution of a close_long (close_short) for a symbol with a long
\* (short) position leaves no such position at the broker, whatever its
\* quantity, and changes no other position.
C31_CloseTakesWholePosition ==
    [][(ExecuteDecision /\ IsClose(NextDecision) /\ positions[KeyOf(NextDecision)] > 0) =>
          /\ positions'[KeyOf(NextDecision)] = 0
          /\ KeyOf(NextDecision) \notin get_positions(positions')
          /\ \A k \in PosKeys \ {KeyOf(NextDecision)} : positions'[k] = positions[k]
          /\ Len(orders') = Len(orders) + 1
          /\ orders'[Len(orders')].quantity = positions[KeyOf(NextDecision)]]_vars

\* A long of more than one share was closed while the short of the same
\* symbol stayed open.
C31_Witness ==
    /\ pc = "exec"
    /\ exec_idx >= 1
    /\ sorted_decisions[exec_idx].action = "close_long"
    /\ orders /= << >>
    /\ orders[Len(orders)].side = "sell"
    /\ orders[Len(orders)].quantity > 1
    /\ positions[<< "AAPL", "long" >>] = 0
    /\ positions[<< "AAPL", "short" >>] > 0

\* C32: when the decisions of a cycle hold a close and an open of the same
\* symbol and side, the open is executed after every such close, finds no
\* position and is not rejected as a duplicate.
C32_CloseBeforeOpen ==
    [][(/\ ExecuteDecision
        /\ IsOpen(NextDecision)
        /\ \E j \in 1..Len(decisions) :
              IsClose(decisions[j]) /\ KeyOf(decisions[j]) = KeyOf(NextDecision)
        /\ \A j \in 1..exec_idx :
              ~(IsOpen(sorted_decisions[j]) /\ KeyOf(sorted_decisions[j]) = KeyOf(NextDecision)))
       => /\ \A j \in 1..Len(sorted_decisions) :
                (IsClose(sorted_decisions[j]) /\ KeyOf(sorted_decisions[j]) = KeyOf(NextDecision))
                    => j <= exec_idx
          /\ positions[KeyOf(NextDecision)] = 0
          /\ Val(record'.decisions)[exec_idx + 1].error /= "position_already_open"]_vars

\* The response named the open before the close, the position existed, and
\* the cycle sold it and bought again.
C32_Witness ==
    /\ pc = "exec"
    /\ exec_idx = 2
    /\ Len(decisions) = 2
    /\ decisions[1].action = "open_long" /\ decisions[1].symbol = "AAPL"
    /\ IsSome(decisions[1].position_size_usd)
    /\ decisions[2].action = "close_long" /\ decisions[2].symbol = "AAPL"
    /\ Len(orders) >= 3
    /\ orders[Len(orders) - 1].side = "sell"
    /\ orders[Len(orders)].side = "buy"
    /\ Val(record.decisions)[2].success
    /\ positions[<< "AAPL", "long" >>] > 0

\* The keys of position_first_seen_time.
FirstSeenKeys == {k \in PosKeys : IsSome(position_first_seen_time[k])}

\* C33: after a context build the keys of position_first_seen_time are the
\* keys of the positions the broker reports, and as long as a position stays
\* reported its time is set and does not change.
C33_FirstSeenLifecycle ==
    [][/\ CycleContextBuilt => FirstSeenKeys' = get_positions(positions')
       /\ \A k \in PosKeys :
             (k \in get_positions(positions) /\ k \in get_positions(positions'))
                 => /\ IsSome(position_first_seen_time[k])
                    /\ position_first_seen_time'[k] = position_first_seen_time[k]]_vars

\* A position opened in the first cycle is reported by the context build of
\* the second, which keeps the earlier time.
C33_Witness ==
    /\ pc = "ai"
    /\ call_count = 2
    /\ positions[<< "AAPL", "long" >>] > 0
    /\ FirstSeenKeys = {<< "AAPL", "long" >>}
    /\ Val(position_first_seen_time[<< "AAPL", "long" >>]) < now

\* The last read_recent: its limit, what it returned, and the lines of the
\* file as str.splitlines cuts them.
ReadLimit == Val(call_result).limit
ReadOut == Val(call_result).out
FileLines == splitlines(FileText(log), << >>)

\* What a line of the file stands for: the record whose serialization it
\* is, a number when it is made of digits, None when it is malformed.
RecordOfLine(line) ==
    IF \E r \in LoggedRecords : json_dumps(r) = line
    THEN Some(CHOOSE r \in LoggedRecords : json_dumps(r) = line)
    ELSE IF line /= << >> /\ \A i \in 1..Len(line) : line[i] = "7"
    THEN Some([number |-> line])
    ELSE None

RECURSIVE RecordsOfLines(_)
RecordsOfLines(lines) ==
    IF lines = << >> THEN << >>
    ELSE (IF RecordOfLine(lines[1]) = None THEN << >> ELSE << Val(RecordOfLine(lines[1])) >>)
         \o RecordsOfLines(Tail(lines))

\* C34: read_recent returns, in the order of the file, the records of the
\* well-formed lines among the last `limit` lines, and the empty list when
\* nothing was ever written.
C34_LastLinesInOrder ==
    (pc = "logger" /\ call_result /= None) =>
        LET n == Len(FileLines)
            first == IF n > ReadLimit THEN n - ReadLimit + 1 ELSE 1
        IN  /\ log = << >> => ReadOut = << >>
            /\ ReadOut = RecordsOfLines(SubSeq(FileLines, first, n))

\* C39: read_recent returns at most `limit` records, and none when limit
\* is 0.
C39_AtMostLimitRecords ==
    (pc = "logger" /\ call_result /= None) =>
        /\ Len(ReadOut) <= ReadLimit
        /\ ReadLimit = 0 => ReadOut = << >>

\* The outcome the last pass of the execution loop recorded.
ExecutedOutcome == Val(record.decisions)[exec_idx]

\* C35: an open or close outcome is recorded with success = TRUE only if
\* the broker accepted an order in that pass (the order list grew by one);
\* a pass in which no order was accepted does not set
\* position_first_seen_time.
C35_SuccessMeansOrderAccepted ==
    [][(ExecuteDecision /\ (IsOpen(NextDecision) \/ IsClose(NextDecision))) =>
          /\ ExecutedOutcome'.success => Len(orders') = Len(orders) + 1
          /\ Len(orders') = Len(orders) =>
                position_first_seen_time' = position_first_seen_time]_vars

\* The log without the outcomes recorded with success = FALSE.
Succeeded(action) == action.success
WithoutFailed(records) ==
    [i \in 1..Len(records) |->
        [records[i] EXCEPT !.decisions = SelectSeq(records[i].decisions, Succeeded)]]

\* C36: the analysis of a log is the analysis of the same log without its
\* failed outcomes: the same trades with the same pnl and the same totals
\* of winning and losing trades.
C36_FailedOutcomesIgnored ==
    pc = "analyzed" =>
        LET clean == ScanTrades(ScanOrder(WithoutFailed(Val(call_args).records), 1), 1,
                                NoOpenPositions)
        IN  /\ Analysis.total_trades = Len(clean)
            /\ Analysis.recent_trades = RecentTrades(clean)
            /\ Analysis.winning_trades =
                   Cardinality({i \in 1..Len(clean) : clean[i].pnl.num > 0})
            /\ Analysis.losing_trades =
                   Cardinality({i \in 1..Len(clean) : ~(clean[i].pnl.num > 0)})

\* ------------- calls of validate_decision with prices a few ulps apart
\* The risk/reward lines of validate_decision in double arithmetic.
\* stop_loss and take_profit are doubles of one binade, written as whole
\* numbers of ulps (the spacing of the doubles of that binade) above a
\* common price; RiskRewardTooLow is the same computation for prices that
\* are whole dollars apart, where the rounding of the entry price is far
\* below the distances.
MaxUlps == 12

\* A fifth rounded toward zero.
TruncatedFifth(n) == n \div 5

\* fl(x + fl(n * 0.2)) - x for a distance of n ulps: n / 5 rounded to the
\* nearest whole number of ulps (n / 5 is never half-way between two).
RoundedFifth(n) == (n + 2) \div 5

\* entry_price, risk_percent, reward_percent, risk_reward_ratio and the test
\* risk_reward_ratio < 3.0: the outcomes, with risk = |entry_price -
\* stop_loss| and reward = |take_profit - entry_price| in ulps (both
\* differences are exact).  risk_reward_ratio is the quotient of two rounded
\* percentages: when reward = 3 * risk it comes out as 3.0 or just below,
\* depending on the price.
RiskRewardGate(action, stop_loss, take_profit) ==
    LET distance == IF action = "open_long" THEN take_profit - stop_loss
                    ELSE stop_loss - take_profit
        risk == RoundedFifth(distance)
        reward == distance - risk
    IN  { [outcome |-> outcome, risk |-> risk, reward |-> reward] :
            outcome \in IF risk = 0 THEN {"ok"}
                        ELSE IF reward < 3 * risk THEN {"ValueError"}
                        ELSE IF reward = 3 * risk THEN {"ok", "ValueError"}
                        ELSE {"ok"} }

\* An open decision that passed the checks before the risk/reward lines:
\* stop_loss < take_profit for a long, stop_loss > take_profit for a short.
GateInit ==
    /\ pc = "gate"
    /\ \E action \in {"open_long", "open_short"}, stop_loss \in 0..MaxUlps,
          take_profit \in 0..MaxUlps :
          /\ IF action = "open_long" THEN stop_loss < take_profit
             ELSE stop_loss > take_profit
          /\ call_args = Some([action |-> action, stop_loss |-> stop_loss,
                               take_profit |-> take_profit])
    /\ call_result = None
    /\ Idle

GateStep ==
    /\ pc = "gate"
    /\ \E result \in RiskRewardGate(Val(call_args).action, Val(call_args).stop_loss,
                                    Val(call_args).take_profit) :
          call_result' = Some(result)
    /\ pc' = "gated"
    /\ UNCHANGED << trest, call_args, mvars >>

SpecGate == GateInit /\ [][GateStep]_vars

\* The distance between stop_loss and take_profit of the validated call.
GateDistance ==
    IF Val(call_args).stop_loss < Val(call_args).take_profit
    THEN Val(call_args).take_profit - Val(call_args).stop_loss
    ELSE Val(call_args).stop_loss - Val(call_args).take_profit

RECURSIVE StatsIn(_, _)
StatsIn(symbol_stats, symbols) ==
    IF symbols = {} THEN << >>
    ELSE LET symbol == CHOOSE x \in symbols : TRUE
         IN  << symbol_stats[symbol] >> \o StatsIn(symbol_stats, symbols \ {symbol})

RECURSIVE SumOf(_)
SumOf(ns) == IF ns = << >> THEN 0 ELSE ns[1] + SumOf(Tail(ns))

\* C38: winning_trades + losing_trades = total_trades = the number of paired
\* trades = the sum of the per-symbol total_trades; the winning trades are
\* those with pnl > 0; the per-symbol total_pnl add up to the sum of the pnl
\* of all trades.
C38_TotalsConsistent ==
    pc = "analyzed" =>
        LET trades == Analysis.recent_trades
            stats == StatsIn(Analysis.symbol_stats, DOMAIN Analysis.symbol_stats)
        IN  /\ Analysis.winning_trades + Analysis.losing_trades = Analysis.total_trades
            /\ Analysis.total_trades = Len(trades)
            /\ Analysis.total_trades = SumOf([i \in 1..Len(stats) |-> stats[i].total_trades])
            /\ Analysis.winning_trades =
                   Cardinality({i \in 1..Len(trades) : trades[i].pnl.num > 0})
            /\ Analysis.losing_trades =
                   Cardinality({i \in 1..Len(trades) : trades[i].pnl.num <= 0})
            /\ FracSum([i \in 1..Len(stats) |-> stats[i].total_pnl])
                   = FracSum([i \in 1..Len(trades) |-> trades[i].pnl])
            /\ \A i \in 1..Len(stats) :
                   stats[i].winning_trades + stats[i].losing_trades = stats[i].total_trades

\* Two symbols, a winning trade of one and a trade with pnl 0 of the other.
C38_Witness ==
    /\ pc = "analyzed"
    /\ Analysis.total_trades = 2
    /\ Analysis.winning_trades = 1
    /\ Analysis.losing_trades = 1
    /\ DOMAIN Analysis.symbol_stats = {"AAPL", "TSLA"}
    /\ Analysis.symbol_stats["TSLA"].total_pnl = Frac(0, 1)
    /\ Analysis.symbol_stats["TSLA"].losing_trades = 1
    /\ Analysis.symbol_stats["AAPL"].total_pnl.num > 0

\* ------------------------------------ calls of the DummyBrokerAPI itself
\* place_order and cancel_order as StockTrader, TraderManager and the HTTP
\* routes pass them through, and the account snapshot a cycle records.
MaxBrokerOrders == 2
MaxSnapshots == 3
OrderSides == {"buy", "sell", "short", "cover"}
OrderQuantities == {1, 2}

\* A broker that pays for what it buys.
ChargedForBuys(account_balance, symbol, side, quantity) ==
    IF side \in {"buy", "long"} THEN account_balance - DefaultPrice * quantity
    ELSE account_balance

\* DummyBrokerAPI.place_order, its effect on _balance: the method does not
\* assign it.
place_order_balance(account_balance, symbol, side, quantity) == account_balance

\* DummyBrokerAPI.cancel_order, its effect on _orders: the order gets the
\* status "canceled"; an unknown order_id changes nothing.
cancel_order(placed, order_id) ==
    IF order_id \in 1..Len(placed) THEN [placed EXCEPT ![order_id].status = "canceled"]
    ELSE placed

\* DummyBrokerAPI.get_account
get_account(account_balance) == [balance |-> account_balance]

brest == << is_running, call_count, stop_until, last_reset_time, position_first_seen_time,
            decisions, sorted_decisions, exec_idx, record, raised, now, ai_calls,
            ai_response >>

BrokerInit == pc = "broker" /\ NoCall /\ Idle

PlaceOrder ==
    /\ pc = "broker"
    /\ Len(orders) < MaxBrokerOrders
    /\ \E symbol \in Symbols, side \in OrderSides, quantity \in OrderQuantities :
          /\ orders' = place_order_orders(orders, symbol, side, quantity)
          /\ positions' = place_order_positions(positions, symbol, side, quantity)
          /\ balance' = place_order_balance(balance, symbol, side, quantity)
    /\ UNCHANGED << pc, brest, log, mvars, fvars >>

CancelOrder ==
    /\ pc = "broker"
    /\ \E order_id \in 1..(Len(orders) + 1) : orders' = cancel_order(orders, order_id)
    /\ UNCHANGED << pc, brest, balance, positions, log, mvars, fvars >>

\* _build_trading_context reads get_account()["balance"] as total_equity,
\* _run_cycle stores it as account_state.total_balance and logs the record.
RecordAccount ==
    /\ pc = "broker"
    /\ Len(log) < MaxSnapshots
    /\ log' = LogAppend(log, LogRecord(<< >>, Some(get_account(balance).balance)))
    /\ UNCHANGED << pc, brest, balance, positions, orders, mvars, fvars >>

SpecBroker == BrokerInit /\ [][PlaceOrder \/ CancelOrder \/ RecordAccount]_vars

\* C40: whatever orders were placed and cancelled, get_account returns the
\* initial balance, every record logged carries that total equity, every
\* period return of the Sharpe computation is 0 and so is the ratio.
C40_BalanceNeverChanges ==
    pc = "broker" =>
        /\ get_account(balance).balance = InitialBalance
        /\ \A i \in 1..Len(log) : log[i].total_balance = Some(InitialBalance)
        /\ \A i \in 1..(Len(log) - 1) : PeriodReturns(Equities(log))[i] = Frac(0, 1)
        /\ _calculate_sharpe_ratio(log) = {SharpeZero}

\* A buy that was cancelled afterwards, a short, and three records.
C40_Witness ==
    /\ pc = "broker"
    /\ Len(orders) = 2
    /\ orders[1].side = "buy" /\ orders[1].status = "canceled"
    /\ orders[2].side = "short" /\ orders[2].status = "filled"
    /\ positions[<< "AAPL", "long" >>] > 0
    /\ Len(log) = 3
    /\ Len(PeriodReturns(Equities(log))) = 2
====
